---- MODULE Spec2Model ----
(***************************************************************************)
(* JournalSmart: rule matcher, rule store, reconciliation (preview) and    *)
(* apply engine, modelled from the Python sources.                         *)
(*                                                                         *)
(* Strings are sequences of one-character strings, so that lower-casing,   *)
(* substring search, regular-expression search and whitespace stripping    *)
(* are computed and not assumed.                                           *)
(***************************************************************************)
EXTENDS Integers, Sequences, FiniteSets, TLC

VARIABLES
    rules,         \* account_mappings table: set of rows
    currentRealm,  \* qbo_service.auth_client.realm_id
    ledger,        \* external ledger: journal id -> sequence of lines
    history,       \* update_history table (committed rows)
    cache,         \* QBOService._account_cache / _last_cache_update
    now,           \* wall clock, seconds
    envMappings,   \* ACCOUNT_MAPPINGS of the .env configuration
    remote,        \* calls made to the ledger API by the last operation
    last,          \* request and response of the last operation
    arg,           \* inputs of the pure matcher functions
    ret,           \* result of the last pure matcher call
    inflight       \* create requests between their duplicate check and insert

vars == <<rules, currentRealm, ledger, history, cache, now, envMappings,
          remote, last, arg, ret, inflight>>

-----------------------------------------------------------------------------
(* Bounds of the model *)

MaxPatLen == 2
MaxDescLen == 3

-----------------------------------------------------------------------------
(* Strings *)

Chars == {"a", "A", "^", "("}

\* str.lower() on one character
LowerChar(c) == IF c = "A" THEN "a" ELSE c

\* str.lower()
Lower(s) == [i \in 1..Len(s) |-> LowerChar(s[i])]

StringsUpTo(n) == UNION {[1..k -> Chars] : k \in 0..n}

\* s[i:i+len(sub)] == sub, i 0-based
PrefixAt(sub, s, i) ==
    /\ i + Len(sub) <= Len(s)
    /\ SubSeq(s, i + 1, i + Len(sub)) = sub

\* str.find(sub): lowest 0-based index of sub in s, or -1
RECURSIVE FindFrom(_, _, _)
FindFrom(sub, s, i) ==
    IF i + Len(sub) > Len(s) THEN -1
    ELSE IF PrefixAt(sub, s, i) THEN i
    ELSE FindFrom(sub, s, i + 1)

Find(sub, s) == FindFrom(sub, s, 0)

\* Python's `sub in s`
In(sub, s) == Find(sub, s) >= 0

\* the characters str.strip() removes
Whitespace == {" "}

RECURSIVE LStrip(_)
LStrip(s) ==
    IF s # <<>> /\ Head(s) \in Whitespace THEN LStrip(Tail(s)) ELSE s

RECURSIVE RStrip(_)
RStrip(s) ==
    IF s # <<>> /\ s[Len(s)] \in Whitespace
        THEN RStrip(SubSeq(s, 1, Len(s) - 1))
        ELSE s

\* str.strip()
Strip(s) == RStrip(LStrip(s))

-----------------------------------------------------------------------------
(* Regular expressions: the subset  literal | ^  with "(" an unbalanced     *)
(* parenthesis, which re.compile rejects.                                   *)

\* re.compile(pattern) succeeds
RegexCompiles(p) == \A i \in 1..Len(p) : p[i] # "("

\* the pattern from element k on matches d starting at 0-based position pos,
\* under re.IGNORECASE
RECURSIVE RegexMatchAt(_, _, _, _)
RegexMatchAt(p, k, d, pos) ==
    IF k > Len(p) THEN pos
    ELSE IF p[k] = "^"
        THEN IF pos = 0 THEN RegexMatchAt(p, k + 1, d, pos) ELSE -1
    ELSE IF pos < Len(d) /\ LowerChar(d[pos + 1]) = LowerChar(p[k])
        THEN RegexMatchAt(p, k + 1, d, pos + 1)
    ELSE -1

\* re.search(p, d, re.IGNORECASE): <<start, end>> of the leftmost match, or
\* <<-1, -1>>; only called on patterns that compile
RECURSIVE RegexSearchFrom(_, _, _)
RegexSearchFrom(p, d, start) ==
    IF start > Len(d) THEN <<-1, -1>>
    ELSE IF RegexMatchAt(p, 1, d, start) >= 0
        THEN <<start, RegexMatchAt(p, 1, d, start)>>
    ELSE RegexSearchFrom(p, d, start + 1)

RegexSearch(p, d) == RegexSearchFrom(p, d, 0)

-----------------------------------------------------------------------------
(* Rule Matcher: DBAccountMapping.matches and AccountMapping.matches have   *)
(* the same body.                                                           *)

MatchesNoLower(pattern, is_regex, description) ==
    IF description = <<>> THEN FALSE
    ELSE IF is_regex
        THEN IF RegexCompiles(pattern)
                THEN RegexSearch(pattern, description)[1] >= 0
                ELSE FALSE
    ELSE In(Lower(pattern), description)

Matches(pattern, is_regex, description) ==
    IF description = <<>> THEN FALSE
    ELSE IF is_regex
        THEN IF RegexCompiles(pattern)
                THEN RegexSearch(pattern, description)[1] >= 0
                ELSE FALSE
    ELSE In(Lower(pattern), Lower(description))

\* DBAccountMapping.get_match_position
GetMatchPosition(pattern, is_regex, description) ==
    IF description = <<>> THEN <<-1, -1>>
    ELSE IF is_regex
        THEN IF RegexCompiles(pattern)
                THEN RegexSearch(pattern, description)
                ELSE <<-1, -1>>
    ELSE LET start == Find(Lower(pattern), Lower(description))
         IN  IF start >= 0 THEN <<start, start + Len(pattern)>>
             ELSE <<-1, -1>>

\* DBAccountMapping.validate_regex: (is_valid, error)
ValidateRegex(pattern) ==
    IF RegexCompiles(pattern) THEN <<TRUE, "None">>
    ELSE <<FALSE, "missing ), unterminated subpattern">>

-----------------------------------------------------------------------------
(* Matcher specification: the inputs are drawn in Init, the actions apply   *)
(* the three pure functions.                                                *)

NoCall == [fn |-> "none"]

CallMatches ==
    /\ ret' = [fn |-> "matches",
               value |-> Matches(arg.pattern, arg.is_regex, arg.description)]
    /\ UNCHANGED <<rules, currentRealm, ledger, history, cache, now,
                   envMappings, remote, last, arg, inflight>>

CallGetMatchPosition ==
    /\ ret' = [fn |-> "get_match_position",
               value |-> GetMatchPosition(arg.pattern, arg.is_regex,
                                          arg.description)]
    /\ UNCHANGED <<rules, currentRealm, ledger, history, cache, now,
                   envMappings, remote, last, arg, inflight>>

CallValidateRegex ==
    /\ ret' = [fn |-> "validate_regex", value |-> ValidateRegex(arg.pattern)]
    /\ UNCHANGED <<rules, currentRealm, ledger, history, cache, now,
                   envMappings, remote, last, arg, inflight>>

-----------------------------------------------------------------------------
(* Rule Store: the account_mappings table and the endpoints that write it.  *)
(* A row is [id, realm_id, pattern, from_account_id, to_account_id,         *)
(* is_active, is_regex, category, sort_order]; the display names of the     *)
(* accounts and the timestamps are carried through unread and are left out. *)

MaxRules == 2
MaxSortOrder == 2

\* Python's None where a record or a number may stand
PyNone == [py |-> "None"]

\* Python's None in a string-valued column
NoRealm == "None"

\* None in the category column and null in a "category" key: a value that no
\* string equals
NoCategory == <<"None">>

\* account ids of the external ledger
A60 == <<"6", "0">>
A62 == <<"6", "2">>
A63 == <<"6", "3">>

\* dict.get(key, default)
Get(data, key, default) == IF key \in DOMAIN data THEN data[key] ELSE default

\* the empty JSON object / a missing request body
NoData == <<>>

MaxOf(S) == CHOOSE m \in S : \A x \in S : x <= m

\* DBAccountMapping.query.get(mapping_id): the row, as a set of 0 or 1 rows
QueryGet(rs, mapping_id) == {r \in rs : r.id = mapping_id}

\* primary key given by the database to an inserted row (SQLite rowid)
NewId(rs) == IF rs = {} THEN 1 ELSE MaxOf({r.id : r \in rs}) + 1

\* DBAccountMapping.get_next_sort_order(realm_id): (max_order or 0) + 1,
\* over the realm's rows, or over all rows when realm_id is None
GetNextSortOrder(rs, realm_id) ==
    LET scoped == IF realm_id # NoRealm
                    THEN {r \in rs : r.realm_id = realm_id}
                    ELSE rs
        orders == {r.sort_order : r \in scoped}
    IN  (IF orders = {} THEN 0 ELSE MaxOf(orders)) + 1

\* qbo_service.get_current_realm_id(): auth_client.realm_id or None
GetCurrentRealmId == currentRealm

\* data.get("category", "").strip() raises when the key holds null
CategoryRaises(data) == Get(data, "category", <<>>) = NoCategory

\* data.get("category", "").strip() or None
CategoryOf(data) ==
    IF Strip(Get(data, "category", <<>>)) = <<>> THEN NoCategory
    ELSE Strip(Get(data, "category", <<>>))

\* filter_by(pattern=..., from_account_id=..., is_active=True), all realms
ActiveSamePair(rs, pattern, from_account_id) ==
    {r \in rs : /\ r.pattern = pattern
                /\ r.from_account_id = from_account_id
                /\ r.is_active}

\* the outcome [status, rules] of POST /api/mappings
CreateMappingResult(rs, data, commitOk) ==
    IF data = NoData THEN [status |-> 400, rules |-> rs]
    ELSE IF \E f \in {"pattern", "from_account_id", "to_account_id"} :
                f \notin DOMAIN data \/ data[f] = <<>>
        THEN [status |-> 400, rules |-> rs]
    ELSE IF ActiveSamePair(rs, data.pattern, data.from_account_id) # {}
        THEN [status |-> 409, rules |-> rs]
    ELSE IF Get(data, "is_regex", FALSE) /\ ~ValidateRegex(data.pattern)[1]
        THEN [status |-> 400, rules |-> rs]
    ELSE IF CategoryRaises(data) THEN [status |-> 500, rules |-> rs]
    ELSE IF ~commitOk THEN [status |-> 500, rules |-> rs]
    ELSE [status |-> 201,
          rules |-> rs \cup
            {[id |-> NewId(rs),
              realm_id |-> NoRealm,
              pattern |-> data.pattern,
              from_account_id |-> data.from_account_id,
              to_account_id |-> data.to_account_id,
              is_active |-> Get(data, "is_active", TRUE),
              is_regex |-> Get(data, "is_regex", FALSE),
              category |-> CategoryOf(data),
              sort_order |-> GetNextSortOrder(rs, NoRealm)]}]

\* mutant of SaveMappingResult: the duplicate check ignores is_active
SaveMappingResultAnyDuplicate(rs, realm_id, data, commitOk) ==
    IF data = NoData THEN [status |-> 400, rules |-> rs]
    ELSE IF \E f \in {"pattern", "from_account_id", "to_account_id"} :
                f \notin DOMAIN data
        THEN [status |-> 400, rules |-> rs]
    ELSE IF {r \in rs : /\ r.pattern = data.pattern
                        /\ r.from_account_id = data.from_account_id
                        /\ realm_id # NoRealm => r.realm_id = realm_id} # {}
        THEN [status |-> 409, rules |-> rs]
    ELSE IF ~commitOk THEN [status |-> 500, rules |-> rs]
    ELSE [status |-> 201,
          rules |-> rs \cup
            {[id |-> NewId(rs),
              realm_id |-> realm_id,
              pattern |-> data.pattern,
              from_account_id |-> data.from_account_id,
              to_account_id |-> data.to_account_id,
              is_active |-> Get(data, "is_active", TRUE),
              is_regex |-> FALSE,
              category |-> NoCategory,
              sort_order |-> GetNextSortOrder(rs, realm_id)]}]

\* the outcome [status, rules] of POST /mapping
SaveMappingResult(rs, realm_id, data, commitOk) ==
    IF data = NoData THEN [status |-> 400, rules |-> rs]
    ELSE IF \E f \in {"pattern", "from_account_id", "to_account_id"} :
                f \notin DOMAIN data
        THEN [status |-> 400, rules |-> rs]
    ELSE IF {r \in ActiveSamePair(rs, data.pattern, data.from_account_id) :
                realm_id # NoRealm => r.realm_id = realm_id} # {}
        THEN [status |-> 409, rules |-> rs]
    ELSE IF ~commitOk THEN [status |-> 500, rules |-> rs]
    ELSE [status |-> 201,
          rules |-> rs \cup
            {[id |-> NewId(rs),
              realm_id |-> realm_id,
              pattern |-> data.pattern,
              from_account_id |-> data.from_account_id,
              to_account_id |-> data.to_account_id,
              is_active |-> Get(data, "is_active", TRUE),
              is_regex |-> FALSE,
              category |-> NoCategory,
              sort_order |-> GetNextSortOrder(rs, realm_id)]}]

\* the row after the "update fields if provided" block of PUT
UpdatedRow(r, data) ==
    [r EXCEPT !.pattern = Get(data, "pattern", @),
              !.from_account_id = Get(data, "from_account_id", @),
              !.to_account_id = Get(data, "to_account_id", @),
              !.is_active = Get(data, "is_active", @),
              !.is_regex = Get(data, "is_regex", @),
              !.category = IF "category" \notin DOMAIN data THEN @
                           ELSE IF data.category \in {NoCategory, <<>>}
                               THEN NoCategory
                           ELSE Strip(data.category)]

\* the outcome [status, rules] of PUT /api/mappings/<id>
UpdateMappingResult(rs, mapping_id, data, commitOk) ==
    IF QueryGet(rs, mapping_id) = {} THEN [status |-> 404, rules |-> rs]
    ELSE IF data = NoData THEN [status |-> 400, rules |-> rs]
    ELSE LET mapping == CHOOSE r \in rs : r.id = mapping_id
             is_regex == Get(data, "is_regex", mapping.is_regex)
             pattern == Get(data, "pattern", mapping.pattern)
         IN  IF /\ is_regex
                /\ ("is_regex" \in DOMAIN data \/ "pattern" \in DOMAIN data)
                /\ ~ValidateRegex(pattern)[1]
                THEN [status |-> 400, rules |-> rs]
             ELSE IF ~commitOk THEN [status |-> 500, rules |-> rs]
             ELSE [status |-> 200,
                   rules |-> (rs \ {mapping}) \cup {UpdatedRow(mapping, data)}]

\* db.session.delete(mapping) with the `updates` backref of UpdateHistory:
\* the history rows of the deleted rule stay, their mapping_id set to NULL
NullifyMapping(hs, mapping_id) ==
    [i \in 1..Len(hs) |->
        IF hs[i].mapping_id # PyNone /\ hs[i].mapping_id = mapping_id
            THEN [hs[i] EXCEPT !.mapping_id = PyNone]
            ELSE hs[i]]

\* the outcome of DELETE /api/mappings/<id>
DeleteMappingResult(rs, mapping_id, commitOk) ==
    IF QueryGet(rs, mapping_id) = {} THEN [status |-> 404, rules |-> rs]
    ELSE IF ~commitOk THEN [status |-> 500, rules |-> rs]
    ELSE [status |-> 200, rules |-> rs \ QueryGet(rs, mapping_id)]

\* the outcome of POST /api/mappings/<id>/toggle
ToggleMappingResult(rs, mapping_id, commitOk) ==
    IF QueryGet(rs, mapping_id) = {} THEN [status |-> 404, rules |-> rs]
    ELSE IF ~commitOk THEN [status |-> 500, rules |-> rs]
    ELSE [status |-> 200,
          rules |-> {IF r.id = mapping_id
                        THEN [r EXCEPT !.is_active = ~r.is_active]
                        ELSE r : r \in rs}]

\* mutant of ReorderLoop: positions counted from 1
RECURSIVE ReorderLoopFromOne(_, _, _)
ReorderLoopFromOne(rs, order, k) ==
    IF k > Len(order) THEN rs
    ELSE ReorderLoopFromOne({IF r.id = order[k]
                                THEN [r EXCEPT !.sort_order = k]
                                ELSE r : r \in rs},
                            order, k + 1)

\* for index, mapping_id in enumerate(order): ... mapping.sort_order = index
\* (k is the 1-based position, index = k - 1)
RECURSIVE ReorderLoop(_, _, _)
ReorderLoop(rs, order, k) ==
    IF k > Len(order) THEN rs
    ELSE ReorderLoop({IF r.id = order[k]
                        THEN [r EXCEPT !.sort_order = k - 1]
                        ELSE r : r \in rs},
                     order, k + 1)

\* a reorder whose failed commit is not rolled back
ReorderMappingsResultNoRollback(rs, data, commitOk) ==
    IF data = NoData \/ "order" \notin DOMAIN data
        THEN [status |-> 400, rules |-> rs]
    ELSE [status |-> IF commitOk THEN 200 ELSE 500,
          rules |-> ReorderLoop(rs, data.order, 1)]

\* the outcome of POST /api/mappings/reorder
ReorderMappingsResult(rs, data, commitOk) ==
    IF data = NoData \/ "order" \notin DOMAIN data
        THEN [status |-> 400, rules |-> rs]
    ELSE IF ~commitOk THEN [status |-> 500, rules |-> rs]
    ELSE [status |-> 200, rules |-> ReorderLoop(rs, data.order, 1)]

\* the sequences an ORDER BY sort_order ASC query may return for the rows S
\* (rows of equal sort_order come in an order the database chooses)
OrderBySortOrder(S) ==
    {q \in [1..Cardinality(S) -> S] :
        /\ \A i, j \in 1..Cardinality(S) : i # j => q[i] # q[j]
        /\ \A i, j \in 1..Cardinality(S) :
                i < j => q[i].sort_order <= q[j].sort_order}

\* GET /api/mappings?active=...: rows of every realm
ListMappings(rs, active_only) ==
    OrderBySortOrder({r \in rs : active_only => r.is_active})

\* DBAccountMapping.get_mappings_by_realm(realm_id) and GET /mapping
GetMappingsByRealm(rs, realm_id) ==
    OrderBySortOrder({r \in rs : r.realm_id = realm_id})

\* DBAccountMapping.get_active_mappings(realm_id)
GetActiveMappings(rs, realm_id) ==
    OrderBySortOrder({r \in rs : /\ r.is_active
                                 /\ realm_id # NoRealm => r.realm_id = realm_id})

-----------------------------------------------------------------------------
(* Rule Store endpoints as actions.  `last` keeps the endpoint and the HTTP *)
(* status of its response.  A step that would store more than MaxRules     *)
(* rows, an id above MaxRules or a sort_order above MaxSortOrder is not     *)
(* taken.                                                                   *)

WithinBounds(rs) ==
    /\ Cardinality(rs) <= MaxRules
    /\ \A r \in rs : r.id <= MaxRules /\ r.sort_order <= MaxSortOrder

\* what the rule-store endpoints leave alone
StoreFrame == <<currentRealm, ledger, history, cache, now, envMappings,
                remote, arg, ret, inflight>>

\* POST /api/mappings
CreateMapping(data, commitOk) ==
    LET res == CreateMappingResult(rules, data, commitOk)
    IN  /\ WithinBounds(res.rules)
        /\ rules' = res.rules
        /\ last' = [op |-> "create_mapping", status |-> res.status]
        /\ UNCHANGED StoreFrame

\* POST /mapping
SaveMapping(data, commitOk) ==
    LET res == SaveMappingResult(rules, GetCurrentRealmId, data, commitOk)
    IN  /\ WithinBounds(res.rules)
        /\ rules' = res.rules
        /\ last' = [op |-> "save_mapping", status |-> res.status]
        /\ UNCHANGED StoreFrame

\* PUT /api/mappings/<id>
UpdateMapping(mapping_id, data, commitOk) ==
    LET res == UpdateMappingResult(rules, mapping_id, data, commitOk)
    IN  /\ WithinBounds(res.rules)
        /\ rules' = res.rules
        /\ last' = [op |-> "update_mapping", status |-> res.status]
        /\ UNCHANGED StoreFrame

\* DELETE /api/mappings/<id>
DeleteMapping(mapping_id, commitOk) ==
    LET res == DeleteMappingResult(rules, mapping_id, commitOk)
    IN  /\ rules' = res.rules
        /\ history' = IF res.status = 200
                          THEN NullifyMapping(history, mapping_id)
                          ELSE history
        /\ last' = [op |-> "delete_mapping", status |-> res.status]
        /\ UNCHANGED <<currentRealm, ledger, cache, now, envMappings,
                       remote, arg, ret, inflight>>

\* POST /api/mappings/<id>/toggle
ToggleMapping(mapping_id, commitOk) ==
    LET res == ToggleMappingResult(rules, mapping_id, commitOk)
    IN  /\ rules' = res.rules
        /\ last' = [op |-> "toggle_mapping", status |-> res.status]
        /\ UNCHANGED StoreFrame

\* POST /api/mappings/reorder
ReorderMappings(data, commitOk) ==
    LET res == ReorderMappingsResult(rules, data, commitOk)
    IN  /\ WithinBounds(res.rules)
        /\ rules' = res.rules
        /\ last' = [op |-> "reorder_mappings", status |-> res.status]
        /\ UNCHANGED StoreFrame

-----------------------------------------------------------------------------
(* Requests of the rule-store specification *)

StorePatterns == {<<"a">>, <<"(">>}

StoreCreateData ==
    {[pattern |-> p, from_account_id |-> A60, to_account_id |-> A62] :
        p \in StorePatterns}
    \cup {[pattern |-> p, from_account_id |-> A60, to_account_id |-> A62,
           is_regex |-> TRUE] : p \in StorePatterns}
    \cup {[pattern |-> <<"a">>, from_account_id |-> A60]}

StoreUpdateData ==
    {[pattern |-> p] : p \in StorePatterns}
    \cup {[is_active |-> b] : b \in BOOLEAN}
    \cup {[is_regex |-> b] : b \in BOOLEAN}
    \cup {NoData}

\* ids a request may name: the ids in use and one that is not
RequestIds == 1..(MaxRules + 1)

SeqsUpTo(S, n) == UNION {[1..k -> S] : k \in 0..n}

StoreReorderData ==
    {[order |-> o] : o \in SeqsUpTo(RequestIds, MaxRules)} \cup {NoData}

-----------------------------------------------------------------------------
(* Initial state: an authenticated session of company "A", an empty rule   *)
(* store, an empty history, an empty account cache.                         *)

Realms == {"A", "B"}

\* journal entry ids of the external ledger
J1 == <<"1">>
J2 == <<"2">>
JournalIds == {J1, J2}

\* the accounts each company's ledger holds, and their display names
LedgerAccounts == {A60, A62, A63}
AccountName(realm, id) == <<realm>> \o id

JournalLine(realm, description, amount, account) ==
    [Description |-> description,
     Amount |-> amount,
     PostingType |-> "Debit",
     AccountRef |-> [value |-> account, name |-> AccountName(realm, account)]]

\* each company's journal entries: a line that matches "a", a line that
\* matches nothing, a line whose text starts with "^", a line without a
\* description and a line on another account
InitLedger ==
    [realm \in Realms |->
        (J1 :> [Id |-> J1, TxnDate |-> 1,
                Line |-> <<JournalLine(realm, <<"a">>, 5, A60),
                           JournalLine(realm, <<"(">>, 5, A60)>>]
         @@
         J2 :> [Id |-> J2, TxnDate |-> 2,
                Line |-> <<JournalLine(realm, <<"^", "a">>, 7, A60),
                           JournalLine(realm, <<>>, 7, A60),
                           JournalLine(realm, <<"a">>, 7, A62)>>])]

NoArg == [pattern |-> <<>>, is_regex |-> FALSE, description |-> <<>>]

InitCommon ==
    /\ rules = {}
    /\ currentRealm = "A"
    /\ history = <<>>
    /\ cache = <<>>
    /\ now = 0
    /\ remote = <<>>
    /\ last = [op |-> "init", status |-> 0]
    /\ ret = NoCall
    /\ inflight = {}

Init ==
    /\ InitCommon
    /\ ledger = InitLedger
    /\ envMappings = <<>>
    /\ arg = NoArg

Next ==
    \/ \E data \in StoreCreateData, ok \in BOOLEAN : CreateMapping(data, ok)
    \/ \E data \in StoreCreateData, ok \in BOOLEAN : SaveMapping(data, ok)
    \/ \E id \in RequestIds, data \in StoreUpdateData, ok \in BOOLEAN :
            UpdateMapping(id, data, ok)
    \/ \E id \in RequestIds, ok \in BOOLEAN : DeleteMapping(id, ok)
    \/ \E id \in RequestIds, ok \in BOOLEAN : ToggleMapping(id, ok)
    \/ \E data \in StoreReorderData, ok \in BOOLEAN : ReorderMappings(data, ok)

Spec == Init /\ [][Next]_vars

(* Matcher specification *)

InitMatch ==
    /\ InitCommon
    /\ ledger = InitLedger
    /\ envMappings = <<>>
    /\ arg \in [pattern : StringsUpTo(MaxPatLen), is_regex : BOOLEAN,
                description : StringsUpTo(MaxDescLen)]

NextMatch ==
    \/ CallMatches
    \/ CallGetMatchPosition
    \/ CallValidateRegex

SpecMatch == InitMatch /\ [][NextMatch]_vars

-----------------------------------------------------------------------------
(* Claims about the Rule Store, checked under Spec *)

SamePair(r1, r2) ==
    /\ r1.pattern = r2.pattern
    /\ r1.from_account_id = r2.from_account_id

\* C1: no two distinct rules that are both active and in the same realm have
\* the same (pattern, from_account_id), after any sequence of store
\* operations.  (The claim as stated; toggle and update break it.)
C1_ActiveRulesUnique ==
    \A r1, r2 \in rules :
        (r1.id # r2.id /\ r1.is_active /\ r2.is_active
            /\ r1.realm_id = r2.realm_id) => ~SamePair(r1, r2)

\* a create request that carries the three required fields, non-empty, and a
\* pattern that compiles when is_regex is set
WellFormedCreate(data) ==
    /\ data # NoData
    /\ \A f \in {"pattern", "from_account_id", "to_account_id"} :
            f \in DOMAIN data /\ data[f] # <<>>
    /\ Get(data, "is_regex", FALSE) => RegexCompiles(data.pattern)

ActiveWithPair(rs, data) ==
    {r \in rs : /\ r.is_active
                /\ r.pattern = data.pattern
                /\ r.from_account_id = data.from_account_id}

\* the step added exactly one rule, with the pair of the request, in realm
AddsOneRule(data, realm) ==
    \E r \in rules' \ rules :
        /\ rules' = rules \cup {r}
        /\ r.pattern = data.pattern
        /\ r.from_account_id = data.from_account_id
        /\ r.realm_id = realm

IdsOf(S) == {r.id : r \in S}

\* order lists every id of S exactly once
IsPermutationOfIds(order, S) ==
    /\ Len(order) = Cardinality(S)
    /\ {order[i] : i \in 1..Len(order)} = IdsOf(S)

InRealm(rs, realm) == {r \in rs : r.realm_id = realm}

\* C3: when ordered_ids is a permutation of the ids of the rules of a scope,
\* after reorder the rule at position i (0-based) has sort_order i, the
\* scope's listing is exactly ordered_ids, and the all-realm listing holds
\* the scope's rules in that order.
C3_ReorderIsBijection ==
    [][\A data \in StoreReorderData \ {NoData} :
        \A realm \in Realms \cup {NoRealm} :
            (/\ ReorderMappings(data, TRUE)
             /\ InRealm(rules, realm) # {}
             /\ IsPermutationOfIds(data.order, InRealm(rules, realm)))
            =>
            /\ \A i \in 1..Len(data.order) :
                \A r \in rules' : r.id = data.order[i] => r.sort_order = i - 1
            /\ {[i \in 1..Len(q) |-> q[i].id] :
                    q \in GetMappingsByRealm(rules', realm)} = {data.order}
            /\ \A q \in ListMappings(rules', FALSE) :
                [i \in 1..Len(data.order) |->
                    SelectSeq(q, LAMBDA r : r.realm_id = realm)[i].id]
                = data.order
      ]_vars

\* C3 witness: a reorder has put the younger of two rules of one realm first
C3_Witness ==
    /\ last.op = "reorder_mappings"
    /\ last.status = 200
    /\ \E r1, r2 \in rules :
        /\ r1.realm_id = r2.realm_id
        /\ r1.id < r2.id
        /\ r2.sort_order = 0
        /\ r1.sort_order = 1

\* largest sort_order among the rules of realm, 0 when there is none
MaxSortOrderIn(rs, realm) ==
    IF InRealm(rs, realm) = {} THEN 0
    ELSE MaxOf({r.sort_order : r \in InRealm(rs, realm)})

-----------------------------------------------------------------------------
(* Claims about the Rule Matcher, checked under SpecMatch *)

\* C7: for a literal (non-regex) pattern P and a description D, matches is
\* true iff the lower-cased P occurs as a contiguous substring of the
\* lower-cased D, and is false whenever D is empty.
C7_LiteralMatchIsSubstring ==
    (ret.fn = "matches" /\ ~arg.is_regex) =>
        LET P == arg.pattern
            D == arg.description
        IN  IF D = <<>> THEN ret.value = FALSE
            ELSE ret.value <=>
                    \E i \in 0..(Len(D) - Len(P)) :
                        \A k \in 1..Len(P) :
                            LowerChar(P[k]) = LowerChar(D[i + k])

\* C7 witness: an upper-case literal pattern found past the start of a
\* description that holds it in lower case
C7_Witness ==
    /\ ret.fn = "matches"
    /\ ~arg.is_regex
    /\ ret.value = TRUE
    /\ arg.pattern = <<"A">>
    /\ arg.description = <<"^", "a">>

-----------------------------------------------------------------------------
(* QBOService: identifiers, the account cache and the rule list handed to   *)
(* the engines.  Python's None is PyNone; a sanitised id that is None is    *)
(* the empty string, which every caller tests with `if not safe_id`.        *)

Digits == {"0", "1", "2", "3", "4", "5", "6", "7", "8", "9"}
\* re.match(r'^\d+$', value)
IsDigits(s) == s # <<>> /\ \A i \in 1..Len(s) : s[i] \in Digits

\* QBOService._sanitize_id: the stripped value, or nothing
SanitizeId(value) ==
    LET stripped == Strip(value)
    IN  IF ~IsDigits(stripped) THEN <<>> ELSE stripped

\* seconds an account stays cached
CacheTimeout == 3600

\* mutant of IsCacheValid: an entry is still valid at the timeout itself
IsCacheValidInclusive(c, key, t) ==
    IF key \notin DOMAIN c THEN FALSE ELSE t - c[key].at <= CacheTimeout

\* QBOService._is_cache_valid
IsCacheValid(c, key, t) ==
    IF key \notin DOMAIN c THEN FALSE ELSE t - c[key].at < CacheTimeout

\* Account.get(id, qb=self.qb) against the company's ledger: the account,
\* nothing, or an exception; an account the ledger does not hold raises
AccountGet(realm, id, acctFail) ==
    IF acctFail = "raise" \/ id \notin LedgerAccounts THEN [kind |-> "raise"]
    ELSE IF acctFail = "none" THEN [kind |-> "None"]
    ELSE [kind |-> "ok", Id |-> id, Name |-> AccountName(realm, id)]

\* QBOService._format_account, reduced to the fields read downstream
FormatAccount(account) == [id |-> account.Id, name |-> account.Name]

\* QBOService.get_account_by_id: [value, cache, calls]
GetAccountById(c, realm, account_id, acctFail, t) ==
    LET safe_id == SanitizeId(account_id)
        account == AccountGet(realm, safe_id, acctFail)
        call == <<[fn |-> "Account.get", id |-> safe_id]>>
    IN  IF safe_id = <<>>
            THEN [value |-> PyNone, cache |-> c, calls |-> <<>>]
        ELSE IF IsCacheValid(c, safe_id, t)
            THEN [value |-> c[safe_id].data, cache |-> c, calls |-> <<>>]
        ELSE IF account.kind # "ok"
            THEN [value |-> PyNone, cache |-> c, calls |-> call]
        ELSE [value |-> FormatAccount(account),
              cache |-> [k \in DOMAIN c \cup {safe_id} |->
                            IF k = safe_id
                                THEN [data |-> FormatAccount(account), at |-> t]
                                ELSE c[k]],
              calls |-> call]

\* AccountMapping(pattern=, from_account_id=, to_account_id=): is_regex is
\* not passed and takes its default
ToAccountMappings(ms) ==
    [i \in 1..Len(ms) |->
        [pattern |-> ms[i].pattern,
         from_account_id |-> ms[i].from_account_id,
         to_account_id |-> ms[i].to_account_id,
         is_regex |-> FALSE]]

\* QBOService.get_account_mappings: the lists it may return (one for each
\* order the database may give to rows of equal sort_order)
GetAccountMappings(rs, env) ==
    LET db_mappings == GetActiveMappings(rs, NoRealm)
    IN  IF \E q \in db_mappings : q # <<>>
            THEN {ToAccountMappings(q) : q \in db_mappings}
            ELSE {ToAccountMappings(env)}

\* the index of the first mapping of the list that takes the line, or 0
RECURSIVE FirstMatch(_, _, _, _)
FirstMatch(account_mappings, k, account, description) ==
    IF k > Len(account_mappings) THEN 0
    ELSE IF /\ account_mappings[k].from_account_id = account
            /\ Matches(account_mappings[k].pattern,
                       account_mappings[k].is_regex, description)
        THEN k
    ELSE FirstMatch(account_mappings, k + 1, account, description)

-----------------------------------------------------------------------------
(* Preview: QBOService.get_journals_by_account and _format_journal.  Every  *)
(* operator returns [value, cache, calls]: what the method returns, the     *)
(* account cache it leaves and the ledger API calls it made.                *)

\* the loop over journal.Line of _format_journal; acc is
\* [lines, has_changes, cache, calls]
RECURSIVE FormatLines(_, _, _, _, _, _, _, _)
FormatLines(lines, k, account_mappings, selected_account_id, realm, acctFail, t, acc) ==
    IF k > Len(lines) THEN acc
    ELSE IF lines[k].AccountRef.value # selected_account_id
        THEN FormatLines(lines, k + 1, account_mappings, selected_account_id,
                         realm, acctFail, t, acc)
    ELSE
        LET line == lines[k]
            account_ref == line.AccountRef
            m == FirstMatch(account_mappings, 1, account_ref.value,
                            line.Description)
            has_changes == acc.has_changes \/ m # 0
            proposed_account == account_mappings[m].to_account_id
            acc_proposed == GetAccountById(acc.cache, realm, proposed_account,
                                           acctFail, t)
            formatted_line ==
                [description |-> line.Description,
                 amount |-> line.Amount,
                 posting_type |-> line.PostingType,
                 current_account |-> [id |-> account_ref.value,
                                      name |-> account_ref.name],
                 proposed_account |-> acc_proposed.value]
        IN  IF m = 0 \/ proposed_account = <<>>
                THEN FormatLines(lines, k + 1, account_mappings,
                                 selected_account_id, realm, acctFail, t,
                                 [acc EXCEPT !.has_changes = has_changes])
                ELSE FormatLines(lines, k + 1, account_mappings,
                                 selected_account_id, realm, acctFail, t,
                                 [lines |-> Append(acc.lines, formatted_line),
                                  has_changes |-> has_changes,
                                  cache |-> acc_proposed.cache,
                                  calls |-> acc.calls \o acc_proposed.calls])

\* QBOService._format_journal
FormatJournal(journal, account_mappings, selected_account_id, c, realm, acctFail, t) ==
    LET acc == FormatLines(journal.Line, 1, account_mappings,
                           selected_account_id, realm, acctFail, t,
                           [lines |-> <<>>, has_changes |-> FALSE,
                            cache |-> c, calls |-> <<>>])
    IN  [value |-> IF acc.has_changes
                      THEN [id |-> journal.Id,
                            date |-> journal.TxnDate,
                            lines |-> acc.lines,
                            has_changes |-> TRUE]
                      ELSE PyNone,
         cache |-> acc.cache,
         calls |-> acc.calls]

\* the order in which the ledger lists its entries
JournalOrder == <<J1, J2>>

\* JournalEntry.query("select * from JournalEntry where TxnDate >= ...")
QueryJournals(entries, start_date) ==
    LET Since(id) == entries[id].TxnDate >= start_date
        ids == SelectSeq(JournalOrder, Since)
    IN  [i \in 1..Len(ids) |-> entries[ids[i]]]

\* stage 1: the journals with a line on the selected account
FilterJournals(journals, safe_account_id) ==
    LET OnAccount(journal) ==
            \E i \in 1..Len(journal.Line) :
                journal.Line[i].AccountRef.value = safe_account_id
    IN  SelectSeq(journals, OnAccount)

\* stage 2: the loop over filtered_journals; acc is [value, cache, calls]
RECURSIVE FormatJournals(_, _, _, _, _, _, _, _)
FormatJournals(filtered_journals, k, account_mappings, safe_account_id, realm, acctFail, t, acc) ==
    IF k > Len(filtered_journals) THEN acc
    ELSE
        LET formatted_journal ==
                FormatJournal(filtered_journals[k], account_mappings,
                              safe_account_id, acc.cache, realm, acctFail, t)
        IN  FormatJournals(filtered_journals, k + 1, account_mappings,
                safe_account_id, realm, acctFail, t,
                [value |-> IF formatted_journal.value = PyNone
                              THEN acc.value
                              ELSE Append(acc.value, formatted_journal.value),
                 cache |-> formatted_journal.cache,
                 calls |-> acc.calls \o formatted_journal.calls])

\* QBOService.get_journals_by_account
GetJournalsByAccount(entries, account_mappings, c, realm, account_id, start_date, queryOk, acctFail, t) ==
    LET safe_account_id == SanitizeId(account_id)
        query == <<[fn |-> "JournalEntry.query", since |-> start_date]>>
        journals == QueryJournals(entries, start_date)
    IN  IF safe_account_id = <<>>
            THEN [value |-> <<>>, cache |-> c, calls |-> <<>>]
        ELSE IF ~queryOk
            THEN [value |-> <<>>, cache |-> c, calls |-> query]
        ELSE FormatJournals(FilterJournals(journals, safe_account_id), 1,
                            account_mappings, safe_account_id, realm,
                            acctFail, t,
                            [value |-> <<>>, cache |-> c, calls |-> query])

\* what the preview leaves alone
PreviewFrame == <<rules, currentRealm, history, now, envMappings, arg, ret, inflight>>

\* mutant of ListJournals: a preview that writes its first proposal through
ListJournalsSaving(account_id, start_date, queryOk, acctFail) ==
    \E account_mappings \in GetAccountMappings(rules, envMappings) :
        LET res == GetJournalsByAccount(ledger[currentRealm], account_mappings,
                        cache, currentRealm, account_id, start_date, queryOk,
                        acctFail, now)
            jid == res.value[1].id
            old == ledger[currentRealm][jid].Line
            new == [i \in 1..Len(old) |->
                        IF old[i].Description = res.value[1].lines[1].description
                            THEN [old[i] EXCEPT !.AccountRef.value = A63]
                            ELSE old[i]]
        IN  /\ cache' = res.cache
            /\ remote' = <<[fn |-> "Account.where"]>> \o res.calls
            /\ last' = [op |-> "list_journals", status |-> 200,
                        account_id |-> account_id, start_date |-> start_date,
                        journals |-> res.value]
            /\ ledger' = IF res.value # <<>> /\ res.value[1].lines # <<>>
                            THEN [ledger EXCEPT ![currentRealm][jid].Line = new]
                            ELSE ledger
            /\ UNCHANGED PreviewFrame

\* GET /journals?account_id=...&start_date=...
ListJournals(account_id, start_date, queryOk, acctFail) ==
    \E account_mappings \in GetAccountMappings(rules, envMappings) :
        LET res == IF account_id = <<>>
                      THEN [value |-> <<>>, cache |-> cache, calls |-> <<>>]
                      ELSE GetJournalsByAccount(ledger[currentRealm],
                                account_mappings, cache, currentRealm,
                                account_id, start_date, queryOk, acctFail, now)
        IN  /\ cache' = res.cache
            /\ remote' = <<[fn |-> "Account.where"]>> \o res.calls
            /\ last' = [op |-> "list_journals", status |-> 200,
                        account_id |-> account_id, start_date |-> start_date,
                        journals |-> res.value]
            /\ UNCHANGED ledger
            /\ UNCHANGED PreviewFrame

-----------------------------------------------------------------------------
(* Preview specification: rules come from both creation endpoints and the   *)
(* toggle, previews are asked for an account and a start date, with the     *)
(* ledger API answering or failing.                                         *)

PreviewCreateData ==
    {[pattern |-> p, from_account_id |-> A60, to_account_id |-> A62] :
        p \in {<<"a">>, <<"^", "a">>}}
    \cup {[pattern |-> <<"^", "a">>, from_account_id |-> A60,
           to_account_id |-> A62, is_regex |-> TRUE]}

PreviewSaveData ==
    {[pattern |-> <<"a">>, from_account_id |-> A60, to_account_id |-> to] :
        to \in {A63, <<>>}}

PreviewAccountIds == {A60, A62}

StartDates == {1, 2}

\* a preview request and the fate of the ledger calls made for it: the
\* ledger answering, an account lookup failing, the query failing, and an
\* account id that is malformed or missing
PreviewRequests ==
    {[account_id |-> a, start_date |-> d, queryOk |-> TRUE, acctFail |-> "ok"] :
        a \in PreviewAccountIds, d \in StartDates}
    \cup {[account_id |-> A60, start_date |-> 1, queryOk |-> TRUE, acctFail |-> f] :
            f \in {"none", "raise"}}
    \cup {[account_id |-> A60, start_date |-> 1, queryOk |-> FALSE, acctFail |-> "ok"]}
    \cup {[account_id |-> a, start_date |-> 1, queryOk |-> TRUE, acctFail |-> "ok"] :
            a \in {<<"x">>, <<>>}}

NextPreview ==
    \/ \E data \in PreviewCreateData : CreateMapping(data, TRUE)
    \/ \E data \in PreviewSaveData : SaveMapping(data, TRUE)
    \/ \E id \in RequestIds : ToggleMapping(id, TRUE)
    \/ \E req \in PreviewRequests :
            ListJournals(req.account_id, req.start_date, req.queryOk,
                         req.acctFail)

SpecPreview == Init /\ [][NextPreview]_vars

-----------------------------------------------------------------------------
(* Claims about the preview, checked under SpecPreview *)

\* the active rules of a scope that take a line
ScopeMatches(rs, realm, account, description) ==
    {r \in rs : /\ r.is_active
                /\ r.realm_id = realm
                /\ r.from_account_id = account
                /\ Matches(r.pattern, r.is_regex, description)}

\* the ids of the accounts a preview result proposes for a line
ProposedIds(journals, journal_id, description) ==
    UNION {{IF journals[i].lines[k].proposed_account = PyNone
                THEN <<>>
                ELSE journals[i].lines[k].proposed_account.id :
            k \in {n \in 1..Len(journals[i].lines) :
                      journals[i].lines[n].description = description}} :
           i \in {n \in 1..Len(journals) : journals[n].id = journal_id}}

\* a preview answer obeys first-match-wins within the scope
FirstMatchWins(journals, account, start_date) ==
    \A id \in JournalIds :
        LET journal == ledger[currentRealm][id]
        IN  \A n \in 1..Len(journal.Line) :
                (/\ journal.TxnDate >= start_date
                 /\ journal.Line[n].AccountRef.value = account)
                =>
                LET S == ScopeMatches(rules, currentRealm, account,
                                      journal.Line[n].Description)
                    props == ProposedIds(journals, id,
                                         journal.Line[n].Description)
                IN  IF S = {} THEN props = {}
                    ELSE \E r \in S :
                            /\ \A r2 \in S : r.sort_order <= r2.sort_order
                            /\ props = {r.to_account_id}

\* C5: for every line a preview evaluates (ledger API answering), the
\* proposed account is the to_account_id of the active rule of the current
\* scope with the smallest sort_order among those on the line's account whose
\* pattern matches the description; the line gets no proposal iff there is
\* no such rule.
C5_FirstMatchWins ==
    [][\A account_id \in PreviewAccountIds, start_date \in StartDates :
            ListJournals(account_id, start_date, TRUE, "ok")
            => FirstMatchWins(last'.journals, account_id, start_date)]_vars

\* the descriptions found in the ledger of the current company
LedgerDescriptions ==
    UNION {{ledger[currentRealm][id].Line[n].Description :
                n \in 1..Len(ledger[currentRealm][id].Line)} :
           id \in JournalIds}

\* C6: the engines treat every active rule R as matching a description D
\* exactly when matches(R, D) of the stored rule holds: the rule list handed
\* to preview and apply matches as the stored rules do, regex rules included.
C6_EnginesMatchAsStoredRules ==
    \A q \in GetActiveMappings(rules, NoRealm) :
        \A ms \in {ToAccountMappings(q)} \cap GetAccountMappings(rules, envMappings) :
            \A i \in 1..Len(q), D \in LedgerDescriptions :
                Matches(ms[i].pattern, ms[i].is_regex, D)
                    = Matches(q[i].pattern, q[i].is_regex, D)

\* C8: every entry a preview returns has has_changes = true and at least one
\* line-level diff.
C8_NoEntryWithoutDiff ==
    last.op = "list_journals" =>
        \A i \in 1..Len(last.journals) :
            /\ last.journals[i].has_changes
            /\ Len(last.journals[i].lines) >= 1

\* the ledger API calls that only read
ReadCalls == {"Account.where", "Account.get", "JournalEntry.query"}

\* C9: a preview never saves an entry and leaves every ledger entry's lines
\* and account references unchanged.
C9_PreviewReadOnly ==
    [][last'.op = "list_journals" =>
            /\ ledger' = ledger
            /\ \A i \in 1..Len(remote') : remote'[i].fn \in ReadCalls]_vars

\* a preview that listed a line with a proposed account different from its
\* current one, the ledger being as it was
C9_Witness ==
    /\ last.op = "list_journals"
    /\ ledger = InitLedger
    /\ \E i \in 1..Len(last.journals) :
        \E k \in 1..Len(last.journals[i].lines) :
            LET ln == last.journals[i].lines[k]
            IN  /\ ln.proposed_account # PyNone
                /\ ln.proposed_account.id # ln.current_account.id

-----------------------------------------------------------------------------
(* Apply: QBOService.update_journals_accounts.  `faults` says which ledger  *)
(* and database calls of the request fail: [fetchFail, saveFail] are sets   *)
(* of journal ids, acctFail is the fate of Account.get, histOk and commitOk *)
(* those of the history insert and of the final commit.  `last` keeps the   *)
(* request, the failures met while serving it and the response.             *)

MaxBatch == 2
MaxHistory == 2

\* the UpdateHistory row written by log_update as update_journals_accounts
\* calls it: neither realm_id nor mapping_id is passed
HistoryRow(safe_id, journal_date, description, old_account, new_account_dict, amount) ==
    [realm_id |-> NoRealm,
     journal_id |-> safe_id,
     journal_date |-> journal_date,
     line_description |-> description,
     from_account_id |-> old_account.id,
     from_account_name |-> old_account.name,
     to_account_id |-> new_account_dict.id,
     to_account_name |-> new_account_dict.name,
     amount |-> amount,
     mapping_id |-> PyNone]

\* the loop over journal.Line; acc is [journal, journal_updated, pending,
\* results, calls, raised], pending being the rows added to the session
RECURSIVE UpdateLines(_, _, _, _, _, _)
UpdateLines(k, account_mappings, safe_id, realm, faults, acc) ==
    IF acc.raised \/ k > Len(acc.journal.Line) THEN acc
    ELSE
        LET line == acc.journal.Line[k]
            account_ref == line.AccountRef
            m == FirstMatch(account_mappings, 1, account_ref.value,
                            line.Description)
            to_account_id == account_mappings[m].to_account_id
            old_account == [id |-> account_ref.value, name |-> account_ref.name]
            new_account == AccountGet(realm, to_account_id, faults.acctFail)
            new_account_dict == [id |-> new_account.Id, name |-> new_account.Name]
            calls == Append(acc.calls, [fn |-> "Account.get", id |-> to_account_id])
            row == HistoryRow(safe_id, acc.journal.TxnDate, line.Description,
                              old_account, new_account_dict, line.Amount)
        IN  IF m = 0
                THEN UpdateLines(k + 1, account_mappings, safe_id, realm, faults, acc)
            ELSE IF new_account.kind = "raise"
                THEN [acc EXCEPT !.raised = TRUE, !.calls = calls]
            ELSE IF new_account.kind = "None"
                THEN UpdateLines(k + 1, account_mappings, safe_id, realm, faults,
                                 [acc EXCEPT !.calls = calls])
            ELSE UpdateLines(k + 1, account_mappings, safe_id, realm, faults,
                    [journal |-> [acc.journal EXCEPT !.Line[k].AccountRef =
                                    [value |-> new_account.Id,
                                     name |-> new_account.Name]],
                     journal_updated |-> TRUE,
                     pending |-> IF faults.histOk
                                    THEN Append(acc.pending, row)
                                    ELSE acc.pending,
                     results |-> Append(acc.results,
                                    [journal_id |-> safe_id,
                                     line_description |-> line.Description,
                                     old_account |-> old_account,
                                     new_account |-> new_account_dict]),
                     calls |-> calls,
                     raised |-> FALSE])

\* the body of the loop over journal_ids for one sanitised id; acc is
\* [entries, pending, results, calls]
UpdateJournal(acc, safe_id, account_mappings, realm, faults) ==
    LET get == [fn |-> "JournalEntry.get", id |-> safe_id]
        save == [fn |-> "JournalEntry.save", id |-> safe_id]
        la == UpdateLines(1, account_mappings, safe_id, realm, faults,
                          [journal |-> acc.entries[safe_id],
                           journal_updated |-> FALSE,
                           pending |-> acc.pending,
                           results |-> acc.results,
                           calls |-> Append(acc.calls, get),
                           raised |-> FALSE])
        after == [entries |-> acc.entries, pending |-> la.pending,
                  results |-> la.results, calls |-> la.calls]
    IN  IF safe_id \notin DOMAIN acc.entries \/ safe_id \in faults.fetchFail
            THEN [acc EXCEPT !.calls = Append(@, get)]
        ELSE IF la.raised \/ ~la.journal_updated THEN after
        ELSE IF safe_id \in faults.saveFail
            THEN [after EXCEPT !.calls = Append(@, save)]
        ELSE [after EXCEPT !.calls = Append(@, save),
                           !.entries[safe_id] = la.journal]

\* mutant of UpdateLoop: the batch stops at the first invalid id
RECURSIVE UpdateLoopStopAtInvalid(_, _, _, _, _, _)
UpdateLoopStopAtInvalid(journal_ids, k, account_mappings, realm, faults, acc) ==
    IF k > Len(journal_ids) THEN acc
    ELSE IF SanitizeId(journal_ids[k]) = <<>> THEN acc
    ELSE UpdateLoopStopAtInvalid(journal_ids, k + 1, account_mappings, realm,
            faults,
            UpdateJournal(acc, SanitizeId(journal_ids[k]), account_mappings,
                          realm, faults))

\* mutant of UpdateLoop: the batch is abandoned after the first entry whose
\* fetch or save fails
RECURSIVE UpdateLoopAbortOnFailure(_, _, _, _, _, _)
UpdateLoopAbortOnFailure(journal_ids, k, account_mappings, realm, faults, acc) ==
    IF k > Len(journal_ids) THEN acc
    ELSE IF SanitizeId(journal_ids[k]) = <<>>
        THEN UpdateLoopAbortOnFailure(journal_ids, k + 1, account_mappings,
                                      realm, faults, acc)
    ELSE IF SanitizeId(journal_ids[k]) \in faults.fetchFail \cup faults.saveFail
        THEN UpdateJournal(acc, SanitizeId(journal_ids[k]), account_mappings,
                           realm, faults)
    ELSE UpdateLoopAbortOnFailure(journal_ids, k + 1, account_mappings, realm,
            faults,
            UpdateJournal(acc, SanitizeId(journal_ids[k]), account_mappings,
                          realm, faults))

\* the loop over journal_ids
RECURSIVE UpdateLoop(_, _, _, _, _, _)
UpdateLoop(journal_ids, k, account_mappings, realm, faults, acc) ==
    IF k > Len(journal_ids) THEN acc
    ELSE IF SanitizeId(journal_ids[k]) = <<>>
        THEN UpdateLoop(journal_ids, k + 1, account_mappings, realm, faults, acc)
    ELSE UpdateLoop(journal_ids, k + 1, account_mappings, realm, faults,
            UpdateJournal(acc, SanitizeId(journal_ids[k]), account_mappings,
                          realm, faults))

\* QBOService.update_journals_accounts: [value, entries, committed, calls],
\* committed being the history rows the final commit stores
UpdateJournalsAccounts(entries, account_mappings, realm, journal_ids, faults) ==
    LET acc == UpdateLoop(journal_ids, 1, account_mappings, realm, faults,
                          [entries |-> entries, pending |-> <<>>,
                           results |-> <<>>, calls |-> <<>>])
    IN  [value |-> acc.results,
         entries |-> acc.entries,
         committed |-> IF faults.commitOk THEN acc.pending ELSE <<>>,
         calls |-> acc.calls]

\* a request during which every call succeeds
NoFaults ==
    [fetchFail |-> {}, saveFail |-> {}, acctFail |-> "ok",
     histOk |-> TRUE, commitOk |-> TRUE]

\* what the apply leaves alone
ApplyFrame == <<rules, currentRealm, cache, now, envMappings, arg, ret, inflight>>

\* mutant of UpdateJournals: the rows of this apply replace the history
UpdateJournalsOverwriting(data, faults) ==
    IF data = NoData \/ Get(data, "journals", <<>>) = <<>>
        THEN /\ last' = [op |-> "update_journals", status |-> 400,
                         journals |-> <<>>, faults |-> NoFaults,
                         updated |-> <<>>]
             /\ remote' = <<>>
             /\ UNCHANGED <<ledger, history>>
             /\ UNCHANGED ApplyFrame
        ELSE \E account_mappings \in GetAccountMappings(rules, envMappings) :
                LET res == UpdateJournalsAccounts(ledger[currentRealm],
                                account_mappings, currentRealm, data.journals,
                                faults)
                IN  /\ Len(history) + Len(res.committed) <= MaxHistory
                    /\ ledger' = [ledger EXCEPT ![currentRealm] = res.entries]
                    /\ history' = res.committed
                    /\ remote' = res.calls
                    /\ last' = [op |-> "update_journals", status |-> 200,
                                journals |-> data.journals,
                                faults |-> faults,
                                updated |-> res.value]
                    /\ UNCHANGED ApplyFrame

\* POST /journals/update
UpdateJournals(data, faults) ==
    IF data = NoData \/ Get(data, "journals", <<>>) = <<>>
        THEN /\ last' = [op |-> "update_journals", status |-> 400,
                         journals |-> <<>>, faults |-> NoFaults,
                         updated |-> <<>>]
             /\ remote' = <<>>
             /\ UNCHANGED <<ledger, history>>
             /\ UNCHANGED ApplyFrame
        ELSE \E account_mappings \in GetAccountMappings(rules, envMappings) :
                LET res == UpdateJournalsAccounts(ledger[currentRealm],
                                account_mappings, currentRealm, data.journals,
                                faults)
                IN  /\ Len(history) + Len(res.committed) <= MaxHistory
                    /\ ledger' = [ledger EXCEPT ![currentRealm] = res.entries]
                    /\ history' = history \o res.committed
                    /\ remote' = res.calls
                    /\ last' = [op |-> "update_journals", status |-> 200,
                                journals |-> data.journals,
                                faults |-> faults,
                                updated |-> res.value]
                    /\ UNCHANGED ApplyFrame

-----------------------------------------------------------------------------
(* Apply specification: a rule saved for the current company, batches of   *)
(* at most MaxBatch ids (valid, padded with a blank, or malformed), and at  *)
(* most one failing call per request.                                       *)

ApplySaveData ==
    {[pattern |-> <<"a">>, from_account_id |-> A60, to_account_id |-> A62]}

ApplyJournalIds == {J1, <<" ", "2">>, <<"x">>}

ApplyData ==
    {[journals |-> ids] : ids \in SeqsUpTo(ApplyJournalIds, MaxBatch)}
    \cup {NoData}

\* the failures that touch a whole entry or the whole request
BatchFaults ==
    {NoFaults,
     [NoFaults EXCEPT !.fetchFail = {J1}],
     [NoFaults EXCEPT !.commitOk = FALSE]}

\* the failures met while an entry's lines are rewritten and saved
LineFaults ==
    {[NoFaults EXCEPT !.saveFail = {J1}],
     [NoFaults EXCEPT !.acctFail = "none"],
     [NoFaults EXCEPT !.acctFail = "raise"],
     [NoFaults EXCEPT !.histOk = FALSE]}

\* an apply request and the failures met while serving it: every batch with
\* the failures of BatchFaults, the batch of both entries with LineFaults
ApplyRequests ==
    {[data |-> d, faults |-> f] : d \in ApplyData, f \in BatchFaults}
    \cup {[data |-> [journals |-> <<J1, <<" ", "2">>>>], faults |-> f] :
            f \in LineFaults}

NextApply ==
    \/ \E data \in ApplySaveData : SaveMapping(data, TRUE)
    \/ \E req \in ApplyRequests : UpdateJournals(req.data, req.faults)

SpecApply == Init /\ [][NextApply]_vars

-----------------------------------------------------------------------------
(* Claims about the apply, checked under SpecApply *)

Range(s) == {s[i] : i \in 1..Len(s)}

\* the ledger calls and history rows that name a journal entry
EntryCalls == {"JournalEntry.get", "JournalEntry.save"}

\* an apply step on `journal_ids` does for them exactly what it would do for
\* the batch `valid`, and touches no other entry
ProcessesExactly(journal_ids, valid, faults) ==
    /\ \A i \in 1..Len(remote') :
            remote'[i].fn \in EntryCalls => remote'[i].id \in Range(valid)
    /\ \A i \in (Len(history) + 1)..Len(history') :
            history'[i].journal_id \in Range(valid)
    /\ \A k \in 1..Len(valid) :
            \E i \in 1..Len(remote') :
                remote'[i] = [fn |-> "JournalEntry.get", id |-> valid[k]]
    /\ \E account_mappings \in GetAccountMappings(rules, envMappings) :
            LET ref == UpdateJournalsAccounts(ledger[currentRealm],
                            account_mappings, currentRealm, valid, faults)
            IN  /\ ledger'[currentRealm] = ref.entries
                /\ history' = history \o ref.committed
                /\ last'.updated = ref.value
                /\ remote' = ref.calls

\* the ids of a batch that are decimal digit strings as given
DigitIds(journal_ids) == SelectSeq(journal_ids, IsDigits)

\* the ids of a batch that are decimal digit strings once surrounding
\* whitespace is removed, in that trimmed form
TrimmedDigitIds(journal_ids) ==
    LET Ok(id) == IsDigits(Strip(id))
        kept == SelectSeq(journal_ids, Ok)
    IN  [i \in 1..Len(kept) |-> Strip(kept[i])]

\* C10 as stated: an apply processes exactly the ids of the batch that are
\* decimal digit strings and skips every other id without raising: no fetch,
\* save or history write for them, and nothing changed for the valid ones.
C10_ProcessesExactlyDigitIds ==
    [][(last'.op = "update_journals" /\ last'.status = 200) =>
            ProcessesExactly(last'.journals, DigitIds(last'.journals),
                             last'.faults)]_vars

\* C10: an apply trims each id and processes exactly those whose trimmed
\* form is a non-empty decimal digit string, under that trimmed form; every
\* other id is skipped without raising: no fetch, save or history write is
\* made for it, and its presence changes nothing of what is done for the
\* others.
C10_ProcessesExactlyTrimmedDigitIds ==
    [][(last'.op = "update_journals" /\ last'.status = 200) =>
            ProcessesExactly(last'.journals, TrimmedDigitIds(last'.journals),
                             last'.faults)]_vars

\* an apply of a batch holding a malformed id and a blank-padded id that
\* reclassified a line of the padded id's entry and logged it
C10_Witness ==
    /\ last.op = "update_journals"
    /\ last.status = 200
    /\ \E i \in 1..Len(last.journals) : last.journals[i] = <<"x">>
    /\ \E i \in 1..Len(last.journals) : last.journals[i] = <<" ", "2">>
    /\ \E i \in 1..Len(last.updated) : last.updated[i].journal_id = J2
    /\ \E i \in 1..Len(history) : history[i].journal_id = J2
    /\ ledger[currentRealm][J2].Line[1].AccountRef.value = A62

-----------------------------------------------------------------------------
(* Claims about failures during an apply, checked under SpecApply *)

\* the batch without its i-th id
WithoutIndex(journal_ids, i) ==
    [k \in 1..(Len(journal_ids) - 1) |->
        IF k < i THEN journal_ids[k] ELSE journal_ids[k + 1]]

\* the fetches and saves of entry `id` within a call log, in order
CallsOfEntry(calls, id) ==
    LET Mine(c) == c.fn \in EntryCalls /\ c.id = id
    IN  SelectSeq(calls, Mine)

\* the changes returned for entry `id`, in order
ChangesOfEntry(value, id) ==
    LET Mine(c) == c.journal_id = id
    IN  SelectSeq(value, Mine)

\* the i-th id of the batch names an entry whose fetch or save fails
EntryFails(journal_ids, i, faults) ==
    /\ SanitizeId(journal_ids[i]) # <<>>
    /\ SanitizeId(journal_ids[i]) \in faults.fetchFail \cup faults.saveFail

\* what an apply step does for the entries after the i-th id is what it
\* does for them when the i-th id is not in the batch
LaterEntriesAsWithout(journal_ids, i, faults) ==
    \E account_mappings \in GetAccountMappings(rules, envMappings) :
        LET ref == UpdateJournalsAccounts(ledger[currentRealm],
                        account_mappings, currentRealm,
                        WithoutIndex(journal_ids, i), faults)
        IN  \A j \in (i + 1)..Len(journal_ids) :
                LET B == SanitizeId(journal_ids[j])
                IN  (B # <<>> /\ B # SanitizeId(journal_ids[i])) =>
                        /\ CallsOfEntry(remote', B) = CallsOfEntry(ref.calls, B)
                        /\ ChangesOfEntry(last'.updated, B)
                                = ChangesOfEntry(ref.value, B)
                        /\ B \in DOMAIN ref.entries
                                => ledger'[currentRealm][B] = ref.entries[B]

\* C11: when the fetch or the save of an entry A of the batch fails, every
\* entry B later in the batch is still fetched, matched and saved exactly as
\* if A had not been in the batch, and B's changes are returned.
C11_FailureIsolatedPerEntry ==
    [][(last'.op = "update_journals" /\ last'.status = 200) =>
            \A i \in 1..Len(last'.journals) :
                EntryFails(last'.journals, i, last'.faults)
                    => LaterEntriesAsWithout(last'.journals, i, last'.faults)]_vars

\* an apply whose first entry was not saved because its fetch or its save
\* failed, and whose second entry was reclassified, saved and returned
C11_Witness ==
    /\ last.op = "update_journals"
    /\ last.status = 200
    /\ Len(last.journals) = 2
    /\ EntryFails(last.journals, 1, last.faults)
    /\ SanitizeId(last.journals[1]) = J1
    /\ SanitizeId(last.journals[2]) = J2
    /\ ledger[currentRealm][J1] = InitLedger[currentRealm][J1]
    /\ ledger[currentRealm][J2].Line[1].AccountRef.value = A62
    /\ \E i \in 1..Len(remote) : remote[i] = [fn |-> "JournalEntry.save", id |-> J2]
    /\ \E i \in 1..Len(last.updated) : last.updated[i].journal_id = J2

\* the entry `id` of the current company holds a line of that description
\* posted to that account
LineStands(id, description, account_id) ==
    /\ id \in DOMAIN ledger[currentRealm]
    /\ \E n \in 1..Len(ledger[currentRealm][id].Line) :
            /\ ledger[currentRealm][id].Line[n].Description = description
            /\ ledger[currentRealm][id].Line[n].AccountRef.value = account_id

\* the save of entry `id` was asked of the ledger and did not fail
SavedIn(calls, id, faults) ==
    /\ id \notin faults.saveFail
    /\ \E i \in 1..Len(calls) :
            calls[i] = [fn |-> "JournalEntry.save", id |-> id]

\* C12: every change an apply returns refers to a line whose new account was
\* saved to the ledger: the entry's save was made and succeeded, and the
\* line stands on the new account; no change of an entry whose save failed
\* is reported.
C12_ReturnsOnlySavedChanges ==
    (last.op = "update_journals" /\ last.status = 200) =>
        \A i \in 1..Len(last.updated) :
            /\ SavedIn(remote, last.updated[i].journal_id, last.faults)
            /\ LineStands(last.updated[i].journal_id,
                          last.updated[i].line_description,
                          last.updated[i].new_account.id)

\* C13: a history row exists only for a line change that was applied and
\* saved: the committed history never holds a row for a line whose save
\* failed or never happened, and holds at most one row per applied change.
C13_HistoryOnlyForSavedChanges ==
    /\ \A i \in 1..Len(history) :
            LineStands(history[i].journal_id, history[i].line_description,
                       history[i].to_account_id)
    /\ \A i, j \in 1..Len(history) :
            (/\ history[i].journal_id = history[j].journal_id
             /\ history[i].line_description = history[j].line_description
             /\ history[i].from_account_id = history[j].from_account_id
             /\ history[i].to_account_id = history[j].to_account_id)
            => i = j

\* C14: every line change persisted to the ledger has a committed history
\* row: no failure of the history insert or of the final commit leaves a
\* saved change without its row while the change is reported as applied.
C14_SavedChangesAreLogged ==
    \A id \in JournalIds :
        \A n \in 1..Len(ledger[currentRealm][id].Line) :
            LET line == ledger[currentRealm][id].Line[n]
                before == InitLedger[currentRealm][id].Line[n]
            IN  line.AccountRef.value # before.AccountRef.value =>
                    \E i \in 1..Len(history) :
                        /\ history[i].journal_id = id
                        /\ history[i].line_description = line.Description
                        /\ history[i].from_account_id = before.AccountRef.value
                        /\ history[i].to_account_id = line.AccountRef.value

-----------------------------------------------------------------------------
(* Apply with a rule whose destination account the ledger does not hold:   *)
(* entry 1 then has a line that resolves (a, 60 -> 62) and one that does    *)
(* not ("(", 60 -> 99).                                                     *)

A99 == <<"9", "9">>

ResolveSaveData ==
    {[pattern |-> <<"a">>, from_account_id |-> A60, to_account_id |-> A62],
     [pattern |-> <<"(">>, from_account_id |-> A60, to_account_id |-> A99]}

ResolveRequests ==
    {[data |-> [journals |-> ids], faults |-> f] :
        ids \in SeqsUpTo(JournalIds, MaxBatch) \ {<<>>},
        f \in {NoFaults, [NoFaults EXCEPT !.acctFail = "none"]}}

NextResolve ==
    \/ \E data \in ResolveSaveData : SaveMapping(data, TRUE)
    \/ \E req \in ResolveRequests : UpdateJournals(req.data, req.faults)

SpecResolve == Init /\ [][NextResolve]_vars

\* some line of entry `id` is taken by a rule whose destination account
\* cannot be resolved during this request
HasUnresolvedLine(id, faults) ==
    \E account_mappings \in GetAccountMappings(rules, envMappings) :
        \E n \in 1..Len(ledger[currentRealm][id].Line) :
            LET line == ledger[currentRealm][id].Line[n]
                m == FirstMatch(account_mappings, 1, line.AccountRef.value,
                                line.Description)
            IN  /\ m # 0
                /\ AccountGet(currentRealm, account_mappings[m].to_account_id,
                              faults.acctFail).kind # "ok"

\* C15: when the destination account of any matching line of an entry cannot
\* be resolved, the update of the whole entry fails: the entry is not saved
\* and no line of it is reported as changed or logged.
C15_UnresolvedAccountFailsEntry ==
    [][(last'.op = "update_journals" /\ last'.status = 200) =>
            \A id \in Range(TrimmedDigitIds(last'.journals)) \cap JournalIds :
                HasUnresolvedLine(id, last'.faults) =>
                    /\ ledger'[currentRealm][id] = ledger[currentRealm][id]
                    /\ \A i \in 1..Len(remote') :
                            remote'[i] # [fn |-> "JournalEntry.save", id |-> id]
                    /\ \A i \in 1..Len(last'.updated) :
                            last'.updated[i].journal_id # id
                    /\ \A i \in (Len(history) + 1)..Len(history') :
                            history'[i].journal_id # id]_vars

-----------------------------------------------------------------------------
(* Preview, then a change made in the ledger by its owner, then apply.  The *)
(* ledger is not owned by the program: between two requests a line of an    *)
(* entry may get another description or another account.                    *)

\* the ledger's owner rewrites line n of entry `id` of the current company
LedgerEdit(id, n, description, account) ==
    /\ n \in 1..Len(ledger[currentRealm][id].Line)
    /\ ledger' = [ledger EXCEPT ![currentRealm][id].Line[n] =
                    [@ EXCEPT !.Description = description,
                              !.AccountRef = [value |-> account,
                                              name |-> AccountName(currentRealm,
                                                                   account)]]]
    /\ ledger' # ledger
    /\ last' = [op |-> "ledger_edit", status |-> 0]
    /\ UNCHANGED <<rules, currentRealm, history, cache, now, envMappings,
                   remote, arg, ret, inflight>>

StaleCreateData ==
    {[pattern |-> <<"a">>, from_account_id |-> A60, to_account_id |-> A62],
     [pattern |-> <<"^", "a">>, from_account_id |-> A60, to_account_id |-> A62,
      is_regex |-> TRUE]}

StaleEdits ==
    {[id |-> J1, n |-> 1, description |-> d, account |-> a] :
        d \in {<<"a">>, <<"^", "a">>}, a \in {A60, A63}}

StaleBatches == {<<J1>>, <<J1, J2>>}

NextStale ==
    \/ \E data \in StaleCreateData : CreateMapping(data, TRUE)
    \/ ListJournals(A60, 1, TRUE, "ok")
    \/ \E e \in StaleEdits : LedgerEdit(e.id, e.n, e.description, e.account)
    \/ \E ids \in StaleBatches : UpdateJournals([journals |-> ids], NoFaults)

SpecStale == Init /\ [][NextStale]_vars

\* the active stored rules that take a line of that account and description
ActiveMatches(rs, account, description) ==
    {r \in rs : /\ r.is_active
                /\ r.from_account_id = account
                /\ Matches(r.pattern, r.is_regex, description)}

\* C16: the lines an apply changes are determined by the ledger state and
\* the active rules at the time of the apply, whatever an earlier preview
\* returned: a line that no active rule matches when the apply runs (its
\* description or account having been changed in the ledger since the
\* preview, for instance) is left as the ledger holds it.
C16_ApplyLeavesUnmatchedLines ==
    [][(last'.op = "update_journals" /\ last'.status = 200) =>
            \A id \in JournalIds :
                \A n \in 1..Len(ledger[currentRealm][id].Line) :
                    LET line == ledger[currentRealm][id].Line[n]
                    IN  ActiveMatches(rules, line.AccountRef.value,
                                      line.Description) = {}
                        => ledger'[currentRealm][id].Line[n] = line]_vars

-----------------------------------------------------------------------------
(* History listing: GET /history/data.  The table is kept oldest first;     *)
(* the query orders by updated_at descending.                               *)

DefaultPage == 1
DefaultPerPage == 25

Reverse(s) == [i \in 1..Len(s) |-> s[Len(s) + 1 - i]]

\* get_history_data: the page of rows and the total; a filter that is not
\* given is <<>>
GetHistoryData(hs, realm_id, page, per_page, journal_id, from_date, to_date) ==
    LET Kept(h) ==
            /\ realm_id # NoRealm => h.realm_id = realm_id
            /\ journal_id # <<>> => h.journal_id = journal_id
            /\ from_date # <<>> => h.journal_date >= from_date
            /\ to_date # <<>> => h.journal_date <= to_date
        query == SelectSeq(Reverse(hs), Kept)
        offset == (page - 1) * per_page
        upto == IF offset + per_page < Len(query) THEN offset + per_page
                ELSE Len(query)
    IN  [history |-> SubSeq(query, offset + 1, upto),
         total |-> Len(query),
         total_pages |-> (Len(query) + per_page - 1) \div per_page]

\* the rows GET /history/data shows to a company on its first page
ListHistory(realm_id) ==
    Range(GetHistoryData(history, realm_id, DefaultPage, DefaultPerPage,
                         <<>>, <<>>, <<>>).history)

\* C17: every history row written by an apply carries the scope identifier
\* of the call and the id of the rule that matched the line, so that the
\* change is listed in the history of that scope and of no other.
C17_HistoryCarriesScopeAndRule ==
    \A i \in 1..Len(history) :
        /\ history[i].realm_id = currentRealm
        /\ \E r \in rules :
                /\ history[i].mapping_id = r.id
                /\ r.from_account_id = history[i].from_account_id
                /\ r.to_account_id = history[i].to_account_id
        /\ history[i] \in ListHistory(currentRealm)
        /\ \A other \in Realms \ {currentRealm} :
                history[i] \notin ListHistory(other)

-----------------------------------------------------------------------------
(* Two connected companies: rules saved while one is signed in, then the    *)
(* other company signed in, listing rules, creating, previewing, applying.  *)

\* TokenService.switch_connection: the connection of that company, if any
SwitchConnection(realm_id) ==
    IF realm_id \in Realms THEN [realm_id |-> realm_id] ELSE PyNone

\* POST /api/companies/switch
SwitchCompany(data) ==
    /\ IF data = NoData \/ "realm_id" \notin DOMAIN data
           THEN /\ last' = [op |-> "switch_company", status |-> 400]
                /\ UNCHANGED currentRealm
       ELSE IF SwitchConnection(data.realm_id) = PyNone
           THEN /\ last' = [op |-> "switch_company", status |-> 404]
                /\ UNCHANGED currentRealm
       ELSE /\ last' = [op |-> "switch_company", status |-> 200]
            /\ currentRealm' = SwitchConnection(data.realm_id).realm_id
    /\ UNCHANGED <<rules, ledger, history, cache, now, envMappings, remote,
                   arg, ret, inflight>>

ScopeSwitchData ==
    {[realm_id |-> r] : r \in Realms \cup {"C"}} \cup {NoData}

ScopeCreateData ==
    {[pattern |-> <<"a">>, from_account_id |-> A60, to_account_id |-> A62]}

NextScope ==
    \/ \E data \in ScopeSwitchData : SwitchCompany(data)
    \/ \E data \in ScopeCreateData : SaveMapping(data, TRUE)
    \/ \E data \in ScopeCreateData : CreateMapping(data, TRUE)
    \/ \E id \in RequestIds : DeleteMapping(id, TRUE)
    \/ ListJournals(A60, 1, TRUE, "ok")
    \/ UpdateJournals([journals |-> <<J1>>], NoFaults)

SpecScope == Init /\ [][NextScope]_vars

\* GET /api/mappings returns rules of the signed-in company only
ListsOwnScopeOnly ==
    \A active_only \in BOOLEAN :
        \A q \in ListMappings(rules, active_only) :
            \A i \in 1..Len(q) : q[i].realm_id = currentRealm

\* a create is refused as a duplicate only for an active rule of the
\* signed-in company with the same pattern and source account
DuplicateFromOwnScopeOnly ==
    \A data \in ScopeCreateData :
        ((CreateMapping(data, TRUE) \/ SaveMapping(data, TRUE))
         /\ last'.status = 409)
        => ActiveSamePair(InRealm(rules, currentRealm), data.pattern,
                          data.from_account_id) # {}

\* a preview answers as it would if the rules of the signed-in company were
\* the only rules stored
PreviewFromOwnScopeOnly ==
    last'.op = "list_journals" =>
        \E account_mappings \in
                GetAccountMappings(InRealm(rules, currentRealm), envMappings) :
            last'.journals =
                GetJournalsByAccount(ledger[currentRealm], account_mappings,
                                     cache, currentRealm, last'.account_id,
                                     last'.start_date, TRUE, "ok", now).value

\* an apply does what it would do if the rules of the signed-in company
\* were the only rules stored
ApplyFromOwnScopeOnly ==
    (last'.op = "update_journals" /\ last'.status = 200) =>
        \E account_mappings \in
                GetAccountMappings(InRealm(rules, currentRealm), envMappings) :
            LET ref == UpdateJournalsAccounts(ledger[currentRealm],
                            account_mappings, currentRealm, last'.journals,
                            last'.faults)
            IN  /\ last'.updated = ref.value
                /\ ledger'[currentRealm] = ref.entries

\* C18: the rules of a scope are isolated from every other scope: they are
\* not returned when the rules are listed for another scope, they do not
\* make a create in another scope fail as a duplicate, and they do not
\* change what a preview or an apply does for another scope.
C18_RulesIsolatedByScope ==
    [][/\ ListsOwnScopeOnly'
       /\ DuplicateFromOwnScopeOnly
       /\ PreviewFromOwnScopeOnly
       /\ ApplyFromOwnScopeOnly]_vars

-----------------------------------------------------------------------------
(* Export and bulk import: GET /api/mappings/export and                     *)
(* POST /api/mappings/import.  An exported file is kept in `ret`.           *)

MaxImport == 2
MaxErrorsShown == 10

\* the JSON array export_mappings returns: one for each order the database
\* may give to rows of equal sort_order
ExportData(rs) ==
    {[i \in 1..Len(q) |->
        [pattern |-> q[i].pattern,
         from_account_id |-> q[i].from_account_id,
         to_account_id |-> q[i].to_account_id,
         is_active |-> q[i].is_active,
         is_regex |-> q[i].is_regex,
         category |-> q[i].category]] : q \in OrderBySortOrder(rs)}

\* filter_by(pattern=..., from_account_id=...): any realm, active or not
SamePairAny(rs, pattern, from_account_id) ==
    {r \in rs : /\ r.pattern = pattern
                /\ r.from_account_id = from_account_id}

\* the loop over the items of import_mappings; acc is [rules, imported,
\* skipped, errors, raised], rules being the rows stored and pending
RECURSIVE ImportLoop(_, _, _)
ImportLoop(data, k, acc) ==
    IF acc.raised \/ k > Len(data) THEN acc
    ELSE
        LET mapping_data == data[k]
            idx == k - 1
            Skip(reason) ==
                [acc EXCEPT !.skipped = @ + 1,
                            !.errors = Append(@, [idx |-> idx,
                                                  reason |-> reason])]
            is_regex == Get(mapping_data, "is_regex", FALSE)
        IN  IF \E f \in {"pattern", "from_account_id", "to_account_id"} :
                    f \notin DOMAIN mapping_data
                THEN ImportLoop(data, k + 1, Skip("Missing required fields"))
            ELSE IF is_regex /\ ~ValidateRegex(mapping_data.pattern)[1]
                THEN ImportLoop(data, k + 1, Skip("Invalid regex"))
            ELSE IF SamePairAny(acc.rules, mapping_data.pattern,
                                mapping_data.from_account_id) # {}
                THEN ImportLoop(data, k + 1, Skip("Duplicate pattern/account"))
            ELSE IF CategoryRaises(mapping_data)
                THEN [acc EXCEPT !.raised = TRUE]
            ELSE ImportLoop(data, k + 1,
                    [acc EXCEPT
                        !.imported = @ + 1,
                        !.rules = @ \cup
                            {[id |-> NewId(acc.rules),
                              realm_id |-> NoRealm,
                              pattern |-> mapping_data.pattern,
                              from_account_id |-> mapping_data.from_account_id,
                              to_account_id |-> mapping_data.to_account_id,
                              is_active |-> Get(mapping_data, "is_active", TRUE),
                              is_regex |-> is_regex,
                              category |-> CategoryOf(mapping_data),
                              sort_order |-> GetNextSortOrder(acc.rules,
                                                              NoRealm)]}])

\* the outcome [status, rules, imported, skipped, errors] of import_mappings
ImportMappingsResult(rs, data, commitOk) ==
    LET acc == ImportLoop(data, 1, [rules |-> rs, imported |-> 0,
                                    skipped |-> 0, errors |-> <<>>,
                                    raised |-> FALSE])
        failed(status) == [status |-> status, rules |-> rs, imported |-> 0,
                           skipped |-> 0, errors |-> <<>>]
    IN  IF data = <<>> THEN failed(400)
        ELSE IF acc.raised \/ ~commitOk THEN failed(500)
        ELSE [status |-> 200, rules |-> acc.rules,
              imported |-> acc.imported, skipped |-> acc.skipped,
              errors |-> SubSeq(acc.errors, 1,
                                IF Len(acc.errors) < MaxErrorsShown
                                    THEN Len(acc.errors)
                                    ELSE MaxErrorsShown)]

\* GET /api/mappings/export
ExportMappings ==
    /\ \E file \in ExportData(rules) :
            ret' = [fn |-> "export_mappings", data |-> file]
    /\ last' = [op |-> "export_mappings", status |-> 200]
    /\ UNCHANGED <<rules, currentRealm, ledger, history, cache, now,
                   envMappings, remote, arg, inflight>>

\* POST /api/mappings/import
ImportMappings(data, commitOk) ==
    LET res == ImportMappingsResult(rules, data, commitOk)
    IN  /\ WithinBounds(res.rules)
        /\ rules' = res.rules
        /\ last' = [op |-> "import_mappings", status |-> res.status,
                    data |-> data, imported |-> res.imported,
                    skipped |-> res.skipped, errors |-> res.errors]
        /\ UNCHANGED StoreFrame

PortCreateData ==
    {[pattern |-> <<"a">>, from_account_id |-> A60, to_account_id |-> A62,
      category |-> <<" ", "c">>],
     [pattern |-> <<"a">>, from_account_id |-> A60, to_account_id |-> A63,
      is_active |-> FALSE]}

\* items of a posted array: a well-formed one, one with an invalid regular
\* expression, one without to_account_id, one with an empty pattern and an
\* empty to_account_id
PortImportItems ==
    {[pattern |-> <<"a">>, from_account_id |-> A60, to_account_id |-> A62],
     [pattern |-> <<"(">>, from_account_id |-> A60, to_account_id |-> A62,
      is_regex |-> TRUE],
     [pattern |-> <<"a">>, from_account_id |-> A60],
     [pattern |-> <<>>, from_account_id |-> A60, to_account_id |-> <<>>]}

\* the arrays posted to the import: hand-written ones and the file of the
\* last export
PortImportData ==
    SeqsUpTo(PortImportItems, MaxImport)
    \cup (IF ret.fn = "export_mappings" THEN {ret.data} ELSE {})

NextPort ==
    \/ \E data \in PortCreateData : CreateMapping(data, TRUE)
    \/ \E id \in RequestIds : DeleteMapping(id, TRUE)
    \/ ExportMappings
    \/ \E data \in PortImportData, commitOk \in BOOLEAN :
            ImportMappings(data, commitOk)

SpecPort == Init /\ [][NextPort]_vars

\* what a rule is to its user
RuleTuples(rs) ==
    {[pattern |-> r.pattern, from_account_id |-> r.from_account_id,
      to_account_id |-> r.to_account_id, is_regex |-> r.is_regex,
      category |-> r.category, is_active |-> r.is_active] : r \in rs}

\* C19: exporting the rules and importing the exported file into an empty
\* store yields the same set of (pattern, from_account_id, to_account_id,
\* is_regex, category, is_active) tuples, rules without a category and
\* inactive rules included.
C19_ExportImportRoundTrip ==
    \A file \in ExportData(rules) :
        RuleTuples(ImportMappingsResult({}, file, TRUE).rules)
            = RuleTuples(rules)

\* creating the items of an array one after the other with create_mapping,
\* counting the creates that succeed and those that do not; acc is
\* [rules, imported, skipped]
RECURSIVE CreateEach(_, _, _)
CreateEach(data, k, acc) ==
    IF k > Len(data) THEN acc
    ELSE LET res == CreateMappingResult(acc.rules, data[k], TRUE)
         IN  CreateEach(data, k + 1,
                IF res.status = 201
                    THEN [acc EXCEPT !.rules = res.rules, !.imported = @ + 1]
                    ELSE [acc EXCEPT !.skipped = @ + 1])

\* C20: a bulk import validates every item as a single create does
\* (required fields, regex validity, duplicate among the active rules): an
\* item is imported exactly when a create of it at that point would
\* succeed, is skipped otherwise, and imported + skipped is the number of
\* items.
C20_ImportValidatesAsCreate ==
    [][(last'.op = "import_mappings" /\ last'.status = 200) =>
            LET ref == CreateEach(last'.data, 1,
                            [rules |-> rules, imported |-> 0, skipped |-> 0])
            IN  /\ last'.imported = ref.imported
                /\ last'.skipped = ref.skipped
                /\ RuleTuples(rules') = RuleTuples(ref.rules)
                /\ last'.imported + last'.skipped = Len(last'.data)]_vars

-----------------------------------------------------------------------------
(* The account cache over time and across companies: the clock advances by *)
(* half the cache timeout, the signed-in company is switched, and accounts  *)
(* are looked up with QBOService.get_account_by_id.  `last` keeps the       *)
(* lookup's arguments and the time at which the entry it found, if any,     *)
(* had been cached; `ret` is what the lookup returned.                      *)

MaxTicks == 3

\* the time between two requests
TickStep == CacheTimeout \div 2

\* datetime.now() moves on
Tick ==
    /\ now + TickStep <= MaxTicks * TickStep
    /\ now' = now + TickStep
    /\ last' = [op |-> "tick", status |-> 0]
    /\ UNCHANGED <<rules, currentRealm, ledger, history, cache, envMappings,
                   remote, arg, ret, inflight>>

\* the time at which the cache entry of `key` was inserted, -1 without entry
CachedAt(c, key) == IF key \in DOMAIN c THEN c[key].at ELSE -1

\* a call of qbo_service.get_account_by_id(account_id)
CallGetAccountById(account_id, acctFail) ==
    LET res == GetAccountById(cache, currentRealm, account_id, acctFail, now)
    IN  /\ cache' = res.cache
        /\ ret' = res.value
        /\ remote' = res.calls
        /\ last' = [op |-> "get_account_by_id", status |-> 0,
                    account_id |-> account_id, acctFail |-> acctFail,
                    cached_at |-> CachedAt(cache, SanitizeId(account_id))]
        /\ UNCHANGED <<rules, currentRealm, ledger, history, now, envMappings,
                       arg, inflight>>

CacheAccountIds == {A62, <<" ", "6", "3">>, A99, <<"x">>}

CacheRequests ==
    {[account_id |-> a, acctFail |-> "ok"] : a \in CacheAccountIds}
    \cup {[account_id |-> A62, acctFail |-> f] : f \in {"none", "raise"}}

CacheSwitchData == {[realm_id |-> r] : r \in Realms}

NextCache ==
    \/ Tick
    \/ \E data \in CacheSwitchData : SwitchCompany(data)
    \/ \E req \in CacheRequests :
            CallGetAccountById(req.account_id, req.acctFail)

SpecCache == Init /\ [][NextCache]_vars

\* the cache after an entry for X was written at time t
CacheWith(c, X, data, t) ==
    [k \in DOMAIN c \cup {X} |->
        IF k = X THEN [data |-> data, at |-> t] ELSE c[k]]

\* C21: a lookup of account X made less than CacheTimeout seconds after X
\* was last inserted into the cache returns the cached value without calling
\* the ledger; a lookup at or after the timeout (or without entry) calls the
\* ledger and, when the ledger answers, replaces the cached value and its
\* insertion time; a failed lookup neither inserts nor refreshes an entry.
C21_CacheExpiry ==
    [][last'.op = "get_account_by_id" =>
            LET X == SanitizeId(last'.account_id)
                answered == last'.acctFail = "ok" /\ X \in LedgerAccounts
                fresh == [id |-> X, name |-> AccountName(currentRealm, X)]
            IN  IF X = <<>>
                    THEN ret' = PyNone /\ remote' = <<>> /\ cache' = cache
                ELSE IF X \in DOMAIN cache /\ now - cache[X].at < CacheTimeout
                    THEN /\ ret' = cache[X].data
                         /\ remote' = <<>>
                         /\ cache' = cache
                ELSE /\ remote' = <<[fn |-> "Account.get", id |-> X]>>
                     /\ IF answered
                            THEN /\ ret' = fresh
                                 /\ cache' = CacheWith(cache, X, fresh, now)
                            ELSE /\ ret' = PyNone
                                 /\ cache' = cache]_vars

\* a lookup made exactly CacheTimeout seconds after the account was cached:
\* the ledger was called and the entry carries the time of this lookup
C21_Witness ==
    /\ last.op = "get_account_by_id"
    /\ last.cached_at >= 0
    /\ now - last.cached_at = CacheTimeout
    /\ remote = <<[fn |-> "Account.get", id |-> SanitizeId(last.account_id)]>>
    /\ cache[SanitizeId(last.account_id)].at = now

-----------------------------------------------------------------------------
(* Claims about the stored rules after any sequence of store operations *)

\* C22: every stored rule has a non-empty pattern, a non-empty
\* from_account_id and a non-empty to_account_id, whatever sequence of
\* creates (both endpoints), updates and imports produced it.
C22_RulesWellFormed ==
    \A r \in rules :
        /\ r.pattern # <<>>
        /\ r.from_account_id # <<>>
        /\ r.to_account_id # <<>>

-----------------------------------------------------------------------------
(* Every operation next to a history that holds rows: the rule store        *)
(* endpoints, the import, preview and apply.                                *)

AuditSaveData ==
    {[pattern |-> <<"a">>, from_account_id |-> A60, to_account_id |-> A62]}

AuditUpdateData == {[to_account_id |-> A63]}

AuditReorderData == {[order |-> <<2, 1>>]}

AuditImportData ==
    {<<[pattern |-> <<"(">>, from_account_id |-> A60, to_account_id |-> A62]>>}

AuditBatches == {<<J1>>}

NextAudit ==
    \/ \E data \in AuditSaveData : SaveMapping(data, TRUE)
    \/ \E data \in AuditUpdateData : UpdateMapping(1, data, TRUE)
    \/ ToggleMapping(1, TRUE)
    \/ \E data \in AuditReorderData : ReorderMappings(data, TRUE)
    \/ \E id \in RequestIds : DeleteMapping(id, TRUE)
    \/ \E data \in AuditImportData : ImportMappings(data, TRUE)
    \/ ListJournals(A60, 1, TRUE, "ok")
    \/ \E ids \in AuditBatches : UpdateJournals([journals |-> ids], NoFaults)

SpecAudit == Init /\ [][NextAudit]_vars

\* the recorded fields of a history row
Recorded(h) ==
    [journal_id |-> h.journal_id,
     journal_date |-> h.journal_date,
     line_description |-> h.line_description,
     from_account_id |-> h.from_account_id,
     from_account_name |-> h.from_account_name,
     to_account_id |-> h.to_account_id,
     to_account_name |-> h.to_account_name,
     amount |-> h.amount,
     realm_id |-> h.realm_id]

\* C23: the history is append-only: no rule store operation, no import, no
\* preview and no apply removes a history row or changes its recorded
\* fields; deleting a rule leaves the number of rows and their entry id,
\* accounts, amount and description as they were.
C23_HistoryAppendOnly ==
    [][/\ Len(history') >= Len(history)
       /\ \A i \in 1..Len(history) :
            Recorded(history'[i]) = Recorded(history[i])
       /\ last'.op # "update_journals" => Len(history') = Len(history)]_vars

\* the only rule, which moved a line that the history records, was deleted:
\* the row is still there
C23_Witness ==
    /\ last.op = "delete_mapping"
    /\ last.status = 200
    /\ rules = {}
    /\ \E i \in 1..Len(history) :
            /\ history[i].journal_id = J1
            /\ history[i].to_account_id = A62

-----------------------------------------------------------------------------
(* Reorder: unknown ids, rules left out, failed commit *)

\* the rule rs holds under id
RuleOfId(rs, id) == CHOOSE r \in rs : r.id = id

\* C24: a reorder skips the ids of its order that name no stored rule and
\* still answers 200; a rule whose id is not in the order is left as it was,
\* a rule whose id is in the order changes in sort_order only; when the
\* commit fails the request answers 500 and no rule changes.
C24_ReorderAtomicAndTolerant ==
    [][\A data \in StoreReorderData \ {NoData}, ok \in BOOLEAN :
        ReorderMappings(data, ok) =>
            /\ last'.status = IF ok THEN 200 ELSE 500
            /\ IdsOf(rules') = IdsOf(rules)
            /\ \A r \in rules :
                /\ r.id \notin Range(data.order) => r \in rules'
                /\ [RuleOfId(rules', r.id) EXCEPT !.sort_order = r.sort_order]
                        = r
            /\ ~ok => rules' = rules]_vars

\* a reorder has answered 200 although two rules now share a position: the
\* order named one of them next to an id that is not stored
C24_Witness ==
    /\ last.op = "reorder_mappings"
    /\ last.status = 200
    /\ \E r1, r2 \in rules :
        /\ r1.id = 1 /\ r2.id = 2
        /\ r1.sort_order = 1 /\ r2.sort_order = 1

-----------------------------------------------------------------------------
(* Chained rules: a rule whose source account is another rule's destination *)

ChainSaveData ==
    {[pattern |-> <<"a">>, from_account_id |-> A60, to_account_id |-> A62],
     [pattern |-> <<"a">>, from_account_id |-> A62, to_account_id |-> A63]}

\* batches naming an entry once, twice, and both entries
ChainBatches == {<<J1>>, <<J2>>, <<J1, J2>>, <<J1, J1>>}

NextChain ==
    \/ \E data \in ChainSaveData : SaveMapping(data, TRUE)
    \/ \E id \in 1..MaxRules : ToggleMapping(id, TRUE)
    \/ \E ids \in ChainBatches : UpdateJournals([journals |-> ids], NoFaults)

SpecChain == Init /\ [][NextChain]_vars

\* under the list account_mappings, every line of the company's entries is
\* after the step either on the account it was on, or on the destination of
\* the first mapping that took it as it stood before the step
MovedAtMostOnce(account_mappings) ==
    \A id \in DOMAIN ledger[currentRealm] :
        \A k \in 1..Len(ledger[currentRealm][id].Line) :
            LET line == ledger[currentRealm][id].Line[k]
                after == ledger'[currentRealm][id].Line[k].AccountRef.value
                m == FirstMatch(account_mappings, 1, line.AccountRef.value,
                                line.Description)
            IN  \/ after = line.AccountRef.value
                \/ m # 0 /\ after = account_mappings[m].to_account_id

\* C25: within one apply every ledger line is reclassified at most once: a
\* line moved from F to T by its first matching rule is not moved again by a
\* rule with from_account_id = T in the same call.
C25_LineMovedAtMostOnce ==
    [][last'.op = "update_journals" =>
        \E account_mappings \in GetAccountMappings(rules, envMappings) :
            MovedAtMostOnce(account_mappings)]_vars

-----------------------------------------------------------------------------
(* Preview and apply on the same ledger and rules *)

\* the preview of account F over the whole ledger, as it stands before the
\* step, lists a line of entry id with that description and amount and the
\* resolved proposal T
PreviewLists(account_mappings, id, line, F, T) ==
    LET journals == GetJournalsByAccount(ledger[currentRealm],
                        account_mappings, cache, currentRealm, F, 1, TRUE,
                        "ok", now).value
    IN  \E i \in 1..Len(journals) :
            /\ journals[i].id = id
            /\ \E n \in 1..Len(journals[i].lines) :
                LET l == journals[i].lines[n]
                IN  /\ l.description = line.Description
                    /\ l.amount = line.Amount
                    /\ l.current_account.id = F
                    /\ l.proposed_account # PyNone
                    /\ l.proposed_account.id = T

\* the step has moved line k of entry id from account F to account T
ApplyMoves(id, k, F, T) ==
    /\ ledger[currentRealm][id].Line[k].AccountRef.value = F
    /\ ledger'[currentRealm][id].Line[k].AccountRef.value = T

\* C26: an apply during which every call succeeds moves a line of a batch
\* entry from account F to account T exactly when the preview of account F,
\* taken on the same ledger and rules, lists that line with proposed
\* account T.
C26_PreviewApplyAgree ==
    [][(last'.op = "update_journals" /\ last'.status = 200
            /\ last'.faults = NoFaults) =>
        \E account_mappings \in GetAccountMappings(rules, envMappings) :
            \A id \in DOMAIN ledger[currentRealm] :
                \A k \in 1..Len(ledger[currentRealm][id].Line) :
                    \A F \in LedgerAccounts : \A T \in LedgerAccounts \ {F} :
                        (/\ \E i \in 1..Len(last'.journals) :
                                SanitizeId(last'.journals[i]) = id
                         /\ ApplyMoves(id, k, F, T))
                        <=>
                        (/\ \E i \in 1..Len(last'.journals) :
                                SanitizeId(last'.journals[i]) = id
                         /\ ledger[currentRealm][id].Line[k].AccountRef.value = F
                         /\ PreviewLists(account_mappings, id,
                                ledger[currentRealm][id].Line[k], F, T))]_vars

-----------------------------------------------------------------------------
(* Evaluation order *)

\* C27: no two stored rules of the same scope have the same sort_order, so
\* the order in which the rules of a scope are evaluated is fixed by the
\* rule store.
C27_SortOrderTotal ==
    \A r1, r2 \in rules :
        (r1.id # r2.id /\ r1.realm_id = r2.realm_id)
            => r1.sort_order # r2.sort_order

-----------------------------------------------------------------------------
(* A deployment whose .env file sets ACCOUNT_MAPPINGS *)

EnvMappings ==
    <<[pattern |-> <<"a">>, from_account_id |-> A60, to_account_id |-> A62]>>

InitEnv ==
    /\ InitCommon
    /\ ledger = InitLedger
    /\ envMappings = EnvMappings
    /\ arg = NoArg

EnvSaveData ==
    {[pattern |-> <<"(">>, from_account_id |-> A60, to_account_id |-> A63]}

EnvBatches == {<<J1>>, <<J2>>}

NextEnv ==
    \/ \E data \in EnvSaveData : SaveMapping(data, TRUE)
    \/ \E id \in 1..MaxRules : ToggleMapping(id, TRUE)
    \/ \E id \in 1..MaxRules : DeleteMapping(id, TRUE)
    \/ \E account_id \in {A60, A62} : ListJournals(account_id, 1, TRUE, "ok")
    \/ \E ids \in EnvBatches : UpdateJournals([journals |-> ids], NoFaults)

SpecEnv == InitEnv /\ [][NextEnv]_vars

\* an active stored rule sends lines of account from to account to
ActiveRuleFor(from, to) ==
    \E r \in rules : /\ r.is_active
                     /\ r.from_account_id = from
                     /\ r.to_account_id = to

\* C28: only active stored rules drive reclassification: every line a
\* preview lists and every line an apply moves is taken by an active stored
\* rule of that source and destination; with no active stored rule the
\* preview returns no entry and the apply changes no line and writes no
\* history.
C28_OnlyActiveStoredRules ==
    [][/\ last'.op = "list_journals" =>
            /\ (\A r \in rules : ~r.is_active) => last'.journals = <<>>
            /\ \A i \in 1..Len(last'.journals) :
                \A n \in 1..Len(last'.journals[i].lines) :
                    \E r \in rules :
                        /\ r.is_active
                        /\ r.from_account_id =
                            last'.journals[i].lines[n].current_account.id
       /\ last'.op = "update_journals" =>
            /\ (\A r \in rules : ~r.is_active) =>
                    ledger' = ledger /\ history' = history
            /\ \A i \in 1..Len(last'.updated) :
                    ActiveRuleFor(last'.updated[i].old_account.id,
                                  last'.updated[i].new_account.id)]_vars

-----------------------------------------------------------------------------
(* Concurrent creates: POST /api/mappings served by two workers.  A request *)
(* first runs its validation and its duplicate query, and later adds and    *)
(* commits its row; the steps of two requests may interleave.               *)

\* the requests in flight at the same time
RaceRequests == {"r1", "r2"}

RaceCreateData ==
    {[pattern |-> p, from_account_id |-> A60, to_account_id |-> A62] :
        p \in {<<"a">>, <<"(">>}}

\* the row create_mapping builds and adds
NewMapping(rs, data) ==
    [id |-> NewId(rs),
     realm_id |-> NoRealm,
     pattern |-> data.pattern,
     from_account_id |-> data.from_account_id,
     to_account_id |-> data.to_account_id,
     is_active |-> Get(data, "is_active", TRUE),
     is_regex |-> Get(data, "is_regex", FALSE),
     category |-> CategoryOf(data),
     sort_order |-> GetNextSortOrder(rs, NoRealm)]

\* create_mapping up to its duplicate query: the request is answered at
\* once when it is rejected, and is in flight otherwise
CreateMappingCheck(req, data) ==
    LET res == CreateMappingResult(rules, data, TRUE)
    IN  /\ \A p \in inflight : p.req # req
        /\ IF res.status = 201
              THEN /\ inflight' = inflight \cup {[req |-> req, data |-> data]}
                   /\ last' = [op |-> "create_mapping_check", status |-> 0]
              ELSE /\ inflight' = inflight
                   /\ last' = [op |-> "create_mapping", status |-> res.status,
                               data |-> data]
        /\ UNCHANGED <<rules, currentRealm, ledger, history, cache, now,
                       envMappings, remote, arg, ret>>

\* create_mapping from db.session.add to its response
CreateMappingInsert(req, commitOk) ==
    \E p \in inflight :
        /\ p.req = req
        /\ WithinBounds(rules \cup {NewMapping(rules, p.data)})
        /\ rules' = IF commitOk THEN rules \cup {NewMapping(rules, p.data)}
                                ELSE rules
        /\ inflight' = inflight \ {p}
        /\ last' = [op |-> "create_mapping",
                    status |-> IF commitOk THEN 201 ELSE 500,
                    data |-> p.data]
        /\ UNCHANGED <<currentRealm, ledger, history, cache, now,
                       envMappings, remote, arg, ret>>

NextRace ==
    \/ \E req \in RaceRequests, data \in RaceCreateData :
            CreateMappingCheck(req, data)
    \/ \E req \in RaceRequests, ok \in BOOLEAN : CreateMappingInsert(req, ok)
    \/ \E id \in 1..MaxRules : DeleteMapping(id, TRUE)

SpecRace == Init /\ [][NextRace]_vars

\* C29: when a create request succeeds, however its steps interleave with
\* those of another create, at most one active rule of the scope holds its
\* (pattern, from_account_id).
C29_ConcurrentCreatesExclusive ==
    [][(last'.op = "create_mapping" /\ last'.status = 201) =>
        Cardinality(ActiveSamePair(rules', last'.data.pattern,
                                   last'.data.from_account_id)) <= 1]_vars

-----------------------------------------------------------------------------
(* The account cache and the current company *)

\* C30: the account data a lookup returns was fetched from the ledger of the
\* company that is current at the lookup, also when the company was switched
\* within the cache timeout of an earlier fetch.
C30_CacheNotSharedAcrossCompanies ==
    [][(last'.op = "get_account_by_id" /\ ret' # PyNone) =>
        ret'.name = AccountName(currentRealm, ret'.id)]_vars

====
